---- MODULE Spec2Model ----
(***************************************************************************)
(* Verification model of aleve99/ryanair-optimizer.                        *)
(*                                                                         *)
(*   SpecClosedPaths : find_closed_paths (ryanair/utils/multitrip.py)      *)
(*   SpecGraphWalk   : get_valid_paths / path_to_trips (multitrip.py)      *)
(*   Spec            : PathProcessor pipeline (utils/path_processor.py)    *)
(*   SpecExpansion   : graph-walk and path-driven backtracking side by side*)
(*   SpecFareGraph   : get_reachable_graph / preprocess_graph              *)
(*   SpecRank        : the sort of optimizer_multi_trip (optimizers.py)    *)
(*   SpecArgs        : --cutoff parsing of main.py, then find_closed_paths *)
(*   SpecAdjacency   : get_adjacency_list (multitrip.py)                   *)
(*   SpecScenario    : find_multi_city_trips on a three-flight scenario    *)
(*   SpecWalk        : the graph walk on fares with two first flights      *)
(*   SpecRoundTrip   : Ryanair._compute_responses (ryanair/ryanair.py)     *)
(*   SpecFair        : Spec with the fairness of the threads               *)
(*                                                                         *)
(* Times are integer hours, prices are integer units.                      *)
(***************************************************************************)
EXTENDS Integers, Sequences, FiniteSets, TLC

VARIABLES
    \* --- run parameters shared by the searches
    origin, cutoff, min_nights, max_nights,
    \* --- find_closed_paths: input, result, position
    adjacency, closed_paths, cpPc,
    \* --- graph-walk: fares, FareGraph, itineraries, trips, position
    fares_node_map, graph, valid_paths, trips, gwPc,
    \* --- PathProcessor: fields, threads, storage
    path_queue, stop_event, paths_found, paths_saved, save_lock,
    mainPc, prodPc, pending, emitted, stop_requested,
    wpc, current_batch, final_flush, db, path_id_seq,
    \* --- history of the pipeline (not program state)
    enq_before_stop, flush_attempted, committed, lost,
    \* --- path-driven backtracking: result, position
    trips_v2, v2Pc,
    \* --- preprocess_graph: threshold, logged count
    max_price, removed_count,
    \* --- ranking: position
    rankPc,
    \* --- main(): the --cutoff argument, position
    cutoff_arg, argPc,
    \* --- get_adjacency_list: allow-list, route service, candidates,
    \*     pool.map results, position, attempts of the current request
    dests, route_service, network_nodes, destinations_by_node,
    adjPc, attempts,
    \* --- history of the adjacency build (not program state)
    fetch_failed,
    \* --- FareGraph cache: ryanair.json, the graph loaded from it, position
    graph_file, loaded_graph, cachePc,
    \* --- _compute_responses: merged availability, result, position
    rt_trips, rt_fares, rtPc

paramVars == <<origin, cutoff, min_nights, max_nights>>
cpVars == <<adjacency, closed_paths, cpPc>>
gwVars == <<fares_node_map, graph, valid_paths, trips, gwPc>>
ppVars == <<path_queue, stop_event, paths_found, paths_saved, save_lock,
            mainPc, prodPc, pending, emitted, stop_requested,
            wpc, current_batch, final_flush, db, path_id_seq,
            enq_before_stop, flush_attempted, committed, lost>>
sbVars == <<trips_v2, v2Pc>>
fgVars == <<max_price, removed_count>>
rkVars == <<rankPc>>
argVars == <<cutoff_arg, argPc>>
adjVars == <<dests, route_service, network_nodes, destinations_by_node,
             adjPc, attempts, fetch_failed>>
cacheVars == <<graph_file, loaded_graph, cachePc>>
rtVars == <<rt_trips, rt_fares, rtPc>>
exVars == <<sbVars, fgVars, rkVars, argVars, adjVars, cacheVars, rtVars>>
vars == <<paramVars, cpVars, gwVars, ppVars, exVars>>

\* ------------------------------------------------------------------------
\* Generic helpers
\* ------------------------------------------------------------------------
Range(s) == {s[i] : i \in 1..Len(s)}

\* Python "x in list"
InList(x, s) == \E i \in 1..Len(s) : s[i] = x

\* duplicate-free lists over a set S (every ordering of every subset)
ListsOver(S) ==
    UNION {{s \in [1..k -> S] : \A i, j \in 1..k : i # j => s[i] # s[j]}
           : k \in 0..Cardinality(S)}

\* ------------------------------------------------------------------------
\* CycleEnumerator: find_closed_paths
\* ------------------------------------------------------------------------
Nodes == {"A", "B", "C", "D"}
MaxCutoff == 4

\* adjacency.get(code, [])
AdjGet(adj, code) == IF code \in DOMAIN adj THEN adj[code] ELSE <<>>

RECURSIVE dfs_cycles(_, _, _, _, _, _)
RECURSIVE dfs_cycles_loop(_, _, _, _, _, _, _)

\* dfs_cycles with the first check relaxed to "longer than 1 node"
dfs_cycles_short(adj, org, cut, current, path, visited) ==
    IF Len(path) > cut THEN <<>>
    ELSE IF Len(path) > 1 /\ InList(org, AdjGet(adj, current))
         THEN <<path \o <<org>>>>
         ELSE dfs_cycles_loop(adj, org, cut, current, path, visited, 1)

\* the list of closed paths appended by one call of the inner dfs_cycles
dfs_cycles(adj, org, cut, current, path, visited) ==
    IF Len(path) > cut THEN <<>>
    ELSE IF Len(path) > 2 /\ InList(org, AdjGet(adj, current))
         THEN <<path \o <<org>>>>
         ELSE dfs_cycles_loop(adj, org, cut, current, path, visited, 1)

\* the "for next_node in adjacency.get(current, [])" loop from index i on
dfs_cycles_loop(adj, org, cut, current, path, visited, i) ==
    LET nbrs == AdjGet(adj, current) IN
    IF i > Len(nbrs) THEN <<>>
    ELSE LET next_node == nbrs[i] IN
         (IF next_node \notin visited
          THEN dfs_cycles(adj, org, cut, next_node,
                          Append(path, next_node), visited \cup {next_node})
          ELSE <<>>)
         \o dfs_cycles_loop(adj, org, cut, current, path, visited, i + 1)

find_closed_paths(adj, org, cut) ==
    dfs_cycles(adj, org, cut, org, <<org>>, {org})

\* the graph-walk variables while another component is being run
GraphWalkOff ==
    /\ fares_node_map = <<>> /\ graph = <<>> /\ valid_paths = <<>>
    /\ trips = <<>> /\ gwPc = "off"

\* the pipeline variables while another component is being run
PipelineOff ==
    /\ path_queue = <<>> /\ stop_event = FALSE
    /\ paths_found = 0 /\ paths_saved = 0 /\ save_lock = 0
    /\ mainPc = "off" /\ prodPc = "off" /\ pending = <<>> /\ emitted = 0
    /\ stop_requested = FALSE
    /\ wpc = <<>> /\ current_batch = <<>> /\ final_flush = <<>>
    /\ db = <<>> /\ path_id_seq = 0
    /\ enq_before_stop = {} /\ flush_attempted = {} /\ committed = {}
    /\ lost = {}

\* the remaining components while another component is being run
BacktrackingOff == trips_v2 = <<>> /\ v2Pc = "off"
PruneOff == max_price = 0 /\ removed_count = 0
RankOff == rankPc = "off"
ArgsOff == cutoff_arg = <<>> /\ argPc = "off"
AdjacencyBuildOff ==
    /\ dests = <<>> /\ route_service = <<>>
    /\ network_nodes = <<>> /\ destinations_by_node = <<>>
    /\ adjPc = "off" /\ attempts = 0 /\ fetch_failed = {}
CacheOff == graph_file = <<>> /\ loaded_graph = <<>> /\ cachePc = "off"
RoundTripOff == rt_trips = <<>> /\ rt_fares = <<>> /\ rtPc = "off"
ExtrasOff ==
    /\ BacktrackingOff /\ PruneOff /\ RankOff /\ ArgsOff /\ AdjacencyBuildOff
    /\ CacheOff /\ RoundTripOff

\* every airport lists each destination once and never itself

InitCP ==
    /\ \E la \in ListsOver(Nodes \ {"A"}), lb \in ListsOver(Nodes \ {"B"}),
          lc \in ListsOver(Nodes \ {"C"}), ld \in ListsOver(Nodes \ {"D"}) :
          adjacency = [n \in Nodes |-> CASE n = "A" -> la [] n = "B" -> lb
                                          [] n = "C" -> lc [] OTHER -> ld]
    /\ origin = "A"
    /\ cutoff \in 0..MaxCutoff
    /\ min_nights = 0 /\ max_nights = 0
    /\ closed_paths = <<>>
    /\ cpPc = "input"
    /\ GraphWalkOff
    /\ PipelineOff
    /\ ExtrasOff

RunFindClosedPaths ==
    /\ cpPc = "input"
    /\ closed_paths' = find_closed_paths(adjacency, origin, cutoff)
    /\ cpPc' = "done"
    /\ UNCHANGED <<paramVars, adjacency, gwVars, ppVars, exVars>>

NextCP == RunFindClosedPaths

SpecClosedPaths == InitCP /\ [][NextCP]_vars

\* --- what a ClosedPath is (spec section 3), independent of the search
IsEdge(adj, u, v) == InList(v, AdjGet(adj, u))

IsClosedPath(adj, org, cut, p) ==
    /\ Len(p) >= 2
    /\ p[1] = org /\ p[Len(p)] = org
    /\ \A i \in 2..(Len(p) - 1) : p[i] # org
    /\ \A i, j \in 2..(Len(p) - 1) : i # j => p[i] # p[j]
    /\ \A i \in 1..(Len(p) - 1) : IsEdge(adj, p[i], p[i + 1])
    /\ Len(p) - 1 >= 3
    /\ Len(p) - 1 <= cut

\* all node sequences that could be a closed path over Nodes
CandidatePaths == UNION {[1..k -> Nodes] : k \in 4..(Cardinality(Nodes) + 1)}

\* C1: find_closed_paths is complete: every simple closed path through
\* origin with 3..cutoff edges is in the returned list.
C1_Complete ==
    cpPc = "done" =>
        \A p \in CandidatePaths :
            IsClosedPath(adjacency, origin, cutoff, p) => InList(p, closed_paths)

\* C2: every returned path is a valid closed path: starts and ends at
\* origin, interior nodes are distinct and differ from origin, consecutive
\* pairs are edges, and the edge count is in 3..cutoff.
C2_Sound ==
    cpPc = "done" =>
        \A i \in 1..Len(closed_paths) :
            IsClosedPath(adjacency, origin, cutoff, closed_paths[i])

C2_Witness ==
    /\ cpPc = "done"
    /\ cutoff = 4
    /\ InList(<<"A", "B", "C", "A">>, closed_paths)
    /\ InList(<<"A", "C", "D", "B", "A">>, closed_paths)
\* ------------------------------------------------------------------------
\* FareGraph and graph-walk: get_reachable_graph, get_valid_paths,
\* _depth_first_search_from_edge, path_to_trips
\* ------------------------------------------------------------------------
MaxNights == 2
HoursPerDay == 24
SecondsPerHour == 3600

\* dict iteration order of the airport codes
NodeSeq == <<"A", "B", "C", "D">>

\* OneWayFare (types.py)
OneWayFare(o, d, dep, arr, price) ==
    [origin |-> o, destination |-> d, dep_time |-> dep, arr_time |-> arr,
     fare |-> price, left |-> 1, currency |-> "EUR"]

get_flight_key(flight) ==
    <<flight.origin, flight.dep_time, flight.destination, flight.arr_time>>

\* timedelta.total_seconds() and timedelta.days of a difference in hours
total_seconds(td) == td * SecondsPerHour
days(td) == td \div HoursPerDay

\* the fares the collaborator may report for the date window
FareUniverse == {
    OneWayFare("A", "B", 0, 2, 10),
    OneWayFare("B", "C", 3, 5, 20),
    OneWayFare("B", "C", 4, 6, 25),
    OneWayFare("B", "C", 27, 29, 15),
    OneWayFare("C", "A", 5, 7, 5),
    OneWayFare("C", "A", 31, 33, 30),
    OneWayFare("C", "A", 78, 80, 12),
    OneWayFare("B", "A", 5, 7, 8),
    OneWayFare("C", "D", 8, 10, 7),
    OneWayFare("D", "B", 12, 14, 11),
    OneWayFare("D", "A", 34, 36, 6) }

\* a set of fares as a list, earliest departure first
Earlier(x, y) ==
    \/ x.dep_time < y.dep_time
    \/ x.dep_time = y.dep_time /\ x.arr_time < y.arr_time
    \/ x.dep_time = y.dep_time /\ x.arr_time = y.arr_time /\ x.fare <= y.fare

RECURSIVE FaresAsList(_)
FaresAsList(S) ==
    IF S = {} THEN <<>>
    ELSE LET f == CHOOSE x \in S : \A y \in S : x = y \/ Earlier(x, y)
         IN <<f>> \o FaresAsList(S \ {f})

\* Dict[origin][destination] -> List[OneWayFare]
FaresNodeMapOf(S) ==
    [o \in Nodes |-> [d \in Nodes \ {o} |->
        FaresAsList({f \in S : f.origin = o /\ f.destination = d})]]

\* the nested iteration "for fares_by_dest in values: for fares: for fare"
RECURSIVE FlattenFares(_, _, _)
FlattenFares(fnm, i, j) ==
    IF i > Len(NodeSeq) THEN <<>>
    ELSE IF j > Len(NodeSeq) THEN FlattenFares(fnm, i + 1, 1)
    ELSE LET o == NodeSeq[i]
             d == NodeSeq[j]
         IN (IF o \in DOMAIN fnm /\ d \in DOMAIN fnm[o] THEN fnm[o][d] ELSE <<>>)
            \o FlattenFares(fnm, i, j + 1)

\* nx.MultiDiGraph: node list, edge list (u, v, key) in insertion order,
\* attribute dict per edge
EmptyGraph == [nodes |-> <<>>, edges |-> <<>>, data |-> <<>>]

add_node(g, n) ==
    IF InList(n, g.nodes) THEN g ELSE [g EXCEPT !.nodes = Append(@, n)]

EdgeIndex(g, e) == CHOOSE i \in 1..Len(g.edges) : g.edges[i] = e

\* add_edge that makes a parallel edge even when the key exists
add_edge_parallel(g, u, v, k, attrs) ==
    LET g2 == add_node(add_node(g, u), v)
    IN [g2 EXCEPT !.edges = Append(@, <<u, v, k>>), !.data = Append(@, attrs)]

\* add_edge(u, v, key=k, **attrs): a new key adds an edge, an existing
\* key updates the attributes of that edge
add_edge(g, u, v, k, attrs) ==
    LET g2 == add_node(add_node(g, u), v)
        e == <<u, v, k>>
    IN IF InList(e, g2.edges)
       THEN [g2 EXCEPT !.data[EdgeIndex(g2, e)] = attrs]
       ELSE [g2 EXCEPT !.edges = Append(@, e), !.data = Append(@, attrs)]

get_edge_data(g, e) == g.data[EdgeIndex(g, e)]

RECURSIVE add_nodes_from(_, _, _)
add_nodes_from(g, fnm, i) ==
    IF i > Len(NodeSeq) THEN g
    ELSE add_nodes_from(IF NodeSeq[i] \in DOMAIN fnm
                        THEN add_node(g, NodeSeq[i]) ELSE g, fnm, i + 1)

RECURSIVE add_fares(_, _, _)
add_fares(g, fares, i) ==
    IF i > Len(fares) THEN g
    ELSE LET fare == fares[i] IN
         add_fares(add_edge(g, fare.origin, fare.destination,
                            get_flight_key(fare),
                            [dep_time |-> fare.dep_time,
                             arr_time |-> fare.arr_time,
                             weight |-> fare.fare,
                             left |-> fare.left,
                             currency |-> fare.currency]),
                   fares, i + 1)

get_reachable_graph(org, fnm) ==
    add_fares(add_nodes_from(EmptyGraph, fnm, 1), FlattenFares(fnm, 1, 1), 1)

\* keep the first occurrence of each element
RECURSIVE Dedup(_)
Dedup(s) ==
    IF s = <<>> THEN <<>>
    ELSE LET r == Dedup(SubSeq(s, 1, Len(s) - 1)) IN
         IF InList(s[Len(s)], r) THEN r ELSE Append(r, s[Len(s)])

\* graph.successors(n), and the edges n -> succ ("for key in graph[n][succ]")
successors(g, n) ==
    Dedup([i \in 1..Len(SelectSeq(g.edges, LAMBDA e : e[1] = n)) |->
              SelectSeq(g.edges, LAMBDA e : e[1] = n)[i][2]])
edges_between(g, u, v) == SelectSeq(g.edges, LAMBDA e : e[1] = u /\ e[2] = v)
\* the connection rule with the 2-hour floor dropped
connection_ok_nofloor(mn, mx, prev_arrival, curr_departure) ==
    /\ ~(curr_departure <= prev_arrival)
    /\ LET time_diff == curr_departure - prev_arrival IN
       IF mn = 0 THEN TRUE
       ELSE mn <= days(time_diff) /\ days(time_diff) <= mx

\* the connection rule with max_nights enforced also when min_nights = 0
connection_ok_capped(mn, mx, prev_arrival, curr_departure) ==
    /\ ~(curr_departure <= prev_arrival)
    /\ LET time_diff == curr_departure - prev_arrival IN
       IF mn = 0 THEN ~(total_seconds(time_diff) < 7200) /\ days(time_diff) <= mx
       ELSE mn <= days(time_diff) /\ days(time_diff) <= mx

\* the checks of lines 407-416: TRUE when the edge is not skipped
connection_ok(mn, mx, prev_arrival, curr_departure) ==
    /\ ~(curr_departure <= prev_arrival)
    /\ LET time_diff == curr_departure - prev_arrival IN
       IF mn = 0 THEN ~(total_seconds(time_diff) < 7200)
       ELSE mn <= days(time_diff) /\ days(time_diff) <= mx

RECURSIVE find_paths(_, _, _)
RECURSIVE find_paths_successors(_, _, _, _)
RECURSIVE find_paths_keys(_, _, _, _, _)

\* c = [graph, origin, min_nights, max_nights, cutoff]; the value is the
\* list of paths the call appends to valid_paths
find_paths(c, current_path, visited) ==
    find_paths_successors(c, current_path, visited, 1)

find_paths_successors(c, current_path, visited, i) ==
    LET start_node == current_path[Len(current_path)][2]
        succs == successors(c.graph, start_node)
    IN IF i > Len(succs) THEN <<>>
       ELSE LET successor == succs[i] IN
            (IF successor # c.origin /\ successor \in visited
             THEN <<>>
             ELSE find_paths_keys(c, current_path, visited, successor, 1))
            \o find_paths_successors(c, current_path, visited, i + 1)

\* find_paths' inner loop with the 2-leg check of line 420 left out
find_paths_keys_outandback(c, current_path, visited, successor, j) ==
    LET start_node == current_path[Len(current_path)][2]
        prev_arrival ==
            get_edge_data(c.graph, current_path[Len(current_path)]).arr_time
        es == edges_between(c.graph, start_node, successor)
    IN IF j > Len(es) THEN <<>>
       ELSE LET curr_departure == get_edge_data(c.graph, es[j]).dep_time
                new_path == Append(current_path, es[j])
            IN (IF ~connection_ok(c.min_nights, c.max_nights,
                                  prev_arrival, curr_departure)
                THEN <<>>
                ELSE IF successor = c.origin THEN <<new_path>>
                     ELSE IF Len(new_path) >= c.cutoff THEN <<>>
                     ELSE find_paths(c, new_path, visited \cup {successor}))
               \o find_paths_keys(c, current_path, visited, successor, j + 1)

\* find_paths' inner loop with the cutoff test of line 426 made before the
\* closing test of line 419
find_paths_keys_cutoff_first(c, current_path, visited, successor, j) ==
    LET start_node == current_path[Len(current_path)][2]
        prev_arrival ==
            get_edge_data(c.graph, current_path[Len(current_path)]).arr_time
        es == edges_between(c.graph, start_node, successor)
    IN IF j > Len(es) THEN <<>>
       ELSE LET curr_departure == get_edge_data(c.graph, es[j]).dep_time
                new_path == Append(current_path, es[j])
            IN (IF ~connection_ok(c.min_nights, c.max_nights,
                                  prev_arrival, curr_departure)
                THEN <<>>
                ELSE IF Len(new_path) >= c.cutoff THEN <<>>
                     ELSE IF successor = c.origin
                     THEN (IF Len(new_path) = 2 THEN <<>> ELSE <<new_path>>)
                     ELSE find_paths(c, new_path, visited \cup {successor}))
               \o find_paths_keys(c, current_path, visited, successor, j + 1)

find_paths_keys(c, current_path, visited, successor, j) ==
    LET start_node == current_path[Len(current_path)][2]
        prev_arrival ==
            get_edge_data(c.graph, current_path[Len(current_path)]).arr_time
        es == edges_between(c.graph, start_node, successor)
    IN IF j > Len(es) THEN <<>>
       ELSE LET curr_departure == get_edge_data(c.graph, es[j]).dep_time
                new_path == Append(current_path, es[j])
            IN (IF ~connection_ok(c.min_nights, c.max_nights,
                                  prev_arrival, curr_departure)
                THEN <<>>
                ELSE IF successor = c.origin
                     THEN (IF Len(new_path) = 2 THEN <<>> ELSE <<new_path>>)
                     ELSE IF Len(new_path) >= c.cutoff THEN <<>>
                     ELSE find_paths(c, new_path, visited \cup {successor}))
               \o find_paths_keys(c, current_path, visited, successor, j + 1)

_depth_first_search_from_edge(g, org, start_edge, mn, mx, cut) ==
    find_paths([graph |-> g, origin |-> org, min_nights |-> mn,
                max_nights |-> mx, cutoff |-> cut],
               <<start_edge>>, {start_edge[1], start_edge[2]})

\* [(origin, succ, key) for succ in successors(origin) for key in ...]
RECURSIVE initial_edges(_, _, _)
initial_edges(g, org, i) ==
    LET succs == successors(g, org) IN
    IF i > Len(succs) THEN <<>>
    ELSE edges_between(g, org, succs[i]) \o initial_edges(g, org, i + 1)

\* pool.starmap over the initial edges, flattened in order
RECURSIVE flatten_searches(_, _, _, _, _, _, _)
flatten_searches(g, org, mn, mx, cut, starts, i) ==
    IF i > Len(starts) THEN <<>>
    ELSE _depth_first_search_from_edge(g, org, starts[i], mn, mx, cut)
         \o flatten_searches(g, org, mn, mx, cut, starts, i + 1)

get_valid_paths(g, org, mn, mx, cut) ==
    flatten_searches(g, org, mn, mx, cut, initial_edges(g, org, 1), 1)

RECURSIVE SumSeq(_)
SumSeq(s) == IF s = <<>> THEN 0 ELSE s[1] + SumSeq(Tail(s))

NoneValue == "None"

\* path_to_trips with the stay measured up to the next leg's arrival
path_to_trip_stay_to_arrival(g, path) ==
    LET flights == [i \in 1..Len(path) |->
            LET edge_data == get_edge_data(g, path[i]) IN
            [dep_time |-> edge_data.dep_time,
             arr_time |-> edge_data.arr_time,
             origin |-> path[i][1],
             destination |-> path[i][2],
             fare |-> edge_data.weight,
             left |-> edge_data.left,
             currency |-> edge_data.currency]]
        stays == [i \in 1..(Len(path) - 1) |->
            [location |-> path[i][2],
             duration |-> get_edge_data(g, path[i + 1]).arr_time
                          - get_edge_data(g, path[i]).arr_time]]
    IN [flights |-> flights,
        total_cost |-> SumSeq([i \in 1..Len(path) |->
                                  get_edge_data(g, path[i]).weight]),
        total_duration |-> IF flights # <<>>
                           THEN flights[Len(flights)].arr_time
                                - flights[1].dep_time
                           ELSE NoneValue,
        stays |-> stays]

\* one Trip of path_to_trips
path_to_trip(g, path) ==
    LET flights == [i \in 1..Len(path) |->
            LET edge_data == get_edge_data(g, path[i]) IN
            [dep_time |-> edge_data.dep_time,
             arr_time |-> edge_data.arr_time,
             origin |-> path[i][1],
             destination |-> path[i][2],
             fare |-> edge_data.weight,
             left |-> edge_data.left,
             currency |-> edge_data.currency]]
        stays == [i \in 1..(Len(path) - 1) |->
            [location |-> path[i][2],
             duration |-> get_edge_data(g, path[i + 1]).dep_time
                          - get_edge_data(g, path[i]).arr_time]]
    IN [flights |-> flights,
        total_cost |-> SumSeq([i \in 1..Len(path) |->
                                  get_edge_data(g, path[i]).weight]),
        total_duration |-> IF flights # <<>>
                           THEN flights[Len(flights)].arr_time
                                - flights[1].dep_time
                           ELSE NoneValue,
        stays |-> stays]

path_to_trips(g, paths) == [i \in 1..Len(paths) |-> path_to_trip(g, paths[i])]

\* the closed-path variables while another component is being run
ClosedPathsOff == adjacency = <<>> /\ closed_paths = <<>> /\ cpPc = "off"

InitGW ==
    /\ origin = "A"
    /\ cutoff \in 0..MaxCutoff
    /\ min_nights \in 0..MaxNights
    /\ max_nights \in 0..MaxNights
    /\ \E S \in SUBSET FareUniverse : fares_node_map = FaresNodeMapOf(S)
    /\ graph = EmptyGraph
    /\ valid_paths = <<>>
    /\ trips = <<>>
    /\ gwPc = "fares"
    /\ ClosedPathsOff
    /\ PipelineOff
    /\ ExtrasOff

BuildGraph ==
    /\ gwPc = "fares"
    /\ graph' = get_reachable_graph(origin, fares_node_map)
    /\ gwPc' = "graph"
    /\ UNCHANGED <<paramVars, cpVars, ppVars, exVars, fares_node_map, valid_paths,
                   trips>>

\* find_multi_city_trips: get_valid_paths, then path_to_trips
FindMultiCityTrips ==
    /\ gwPc = "graph"
    /\ initial_edges(graph, origin, 1) # <<>>
    /\ valid_paths' = get_valid_paths(graph, origin, min_nights, max_nights, cutoff)
    /\ trips' = path_to_trips(graph, valid_paths')
    /\ gwPc' = "done"
    /\ UNCHANGED <<paramVars, cpVars, ppVars, exVars, fares_node_map, graph>>

\* mp.Pool(0) raises ValueError when no flight leaves the origin
FindMultiCityTripsNoFirstFlight ==
    /\ gwPc = "graph"
    /\ initial_edges(graph, origin, 1) = <<>>
    /\ gwPc' = "error"
    /\ UNCHANGED <<paramVars, cpVars, ppVars, exVars, fares_node_map, graph,
                   valid_paths, trips>>

NextGW == BuildGraph \/ FindMultiCityTrips \/ FindMultiCityTripsNoFirstFlight

SpecGraphWalk == InitGW /\ [][NextGW]_vars

\* C3: every trip of the graph-walk satisfies the connection rule on every
\* adjacent leg pair (next departure strictly after previous arrival; gap of
\* at least 2 hours when min_nights = 0, otherwise min_nights <= gap in
\* whole days <= max_nights), starts at origin and ends at origin.
C3_ConnectionRule ==
    gwPc = "done" =>
        \A t \in 1..Len(trips) :
            LET legs == trips[t].flights IN
            /\ Len(legs) >= 1
            /\ legs[1].origin = origin
            /\ legs[Len(legs)].destination = origin
            /\ \A i \in 1..(Len(legs) - 1) :
                   LET gap == legs[i + 1].dep_time - legs[i].arr_time IN
                   /\ legs[i + 1].dep_time > legs[i].arr_time
                   /\ IF min_nights = 0
                      THEN gap >= 2
                      ELSE \E n \in min_nights..max_nights :
                               n * HoursPerDay <= gap
                               /\ gap < (n + 1) * HoursPerDay

C3_Witness ==
    /\ gwPc = "done"
    /\ min_nights = 1 /\ max_nights = 2
    /\ \E t \in 1..Len(trips) :
           /\ Len(trips[t].flights) = 3
           /\ trips[t].flights[2].dep_time - trips[t].flights[1].arr_time >= 24
           /\ trips[t].flights[3].dep_time - trips[t].flights[2].arr_time >= 48
\* ------------------------------------------------------------------------
\* PathPersistencePipeline: PathProcessor (ryanair/utils/path_processor.py)
\* ------------------------------------------------------------------------
\* scaled-down sizes: workers (min(4, num_threads)), queue.Queue(maxsize),
\* self.batch_size, and the number of itineraries the producer emits
NumWorkers == 2
QueueMaxsize == 1
batch_size == 2
MaxEmit == 2

Workers == 1..NumWorkers

\* a flight dict as handed to path_callback
PathFlight(o, d, dep, arr, price) ==
    [key |-> <<o, dep, d, arr>>, origin |-> o, destination |-> d,
     departure |-> dep, arrival |-> arr, cost |-> price, currency |-> "EUR"]

\* the itineraries the producer emits, in turn: both use the same C -> A
\* flight, and they carry different costs for the key of the A -> B flight
Itineraries == <<
    <<PathFlight("A", "B", 0, 2, 10), PathFlight("B", "C", 4, 6, 25),
      PathFlight("C", "A", 31, 33, 30)>>,
    <<PathFlight("A", "B", 0, 2, 12), PathFlight("B", "D", 5, 7, 7),
      PathFlight("D", "C", 9, 11, 4), PathFlight("C", "A", 31, 33, 30)>> >>

\* the n-th path handed to the callback
EmittedPath(n) == Itineraries[((n - 1) % Len(Itineraries)) + 1]

\* path_callback: the list of dicts built from the producer's path
path_data_of(path) ==
    [i \in 1..Len(path) |->
        [key |-> path[i].key, origin |-> path[i].origin,
         destination |-> path[i].destination,
         departure |-> path[i].departure, arrival |-> path[i].arrival,
         cost |-> path[i].cost, currency |-> path[i].currency]]

\* storage: flights is the heap of rows, paths and path_flights are sets
EmptyDb == [flights |-> <<>>, paths |-> {}, path_flights |-> {}]

RECURSIVE ConcatPaths(_)
ConcatPaths(paths_batch) ==
    IF paths_batch = <<>> THEN <<>>
    ELSE Head(paths_batch).path \o ConcatPaths(Tail(paths_batch))

\* lines 105-118: one tuple per flight key, first occurrence wins
RECURSIVE flight_data_from(_, _, _)
flight_data_from(fl, i, seen_flights) ==
    IF i > Len(fl) THEN <<>>
    ELSE IF fl[i].key \notin seen_flights
         THEN <<[flight_key |-> fl[i].key, origin |-> fl[i].origin,
                 destination |-> fl[i].destination,
                 departure_time |-> fl[i].departure, cost |-> fl[i].cost]>>
              \o flight_data_from(fl, i + 1, seen_flights \cup {fl[i].key})
         ELSE flight_data_from(fl, i + 1, seen_flights)

flight_data(paths_batch) == flight_data_from(ConcatPaths(paths_batch), 1, {})

HasKey(table, k) == \E i \in 1..Len(table) : table[i].flight_key = k

\* plain INSERT on a table without the key constraint
insert_flights_plain(table, rows) == table \o rows

\* INSERT INTO flights ... ON CONFLICT (flight_key) DO NOTHING, row by row
RECURSIVE insert_flights(_, _)
insert_flights(table, rows) ==
    IF rows = <<>> THEN table
    ELSE insert_flights(IF HasKey(table, Head(rows).flight_key)
                        THEN table ELSE Append(table, Head(rows)),
                        Tail(rows))

\* paths row written with the sequence numbers counted from the end
path_flights_data_reversed(path, path_id) ==
    {[path_id |-> path_id, flight_key |-> path[i].key,
      sequence_num |-> Len(path) - i] : i \in 1..Len(path)}

\* lines 149-154: (path_id, flight['key'], i) for i, flight in enumerate
path_flights_data(path, path_id) ==
    {[path_id |-> path_id, flight_key |-> path[i].key,
      sequence_num |-> i - 1] : i \in 1..Len(path)}

\* lines 133-144: INSERT INTO paths (origin, total_cost, num_flights)
paths_row(path, path_id) ==
    [path_id |-> path_id,
     origin |-> path[1].origin,
     total_cost |-> SumSeq([i \in 1..Len(path) |-> path[i].cost]),
     num_flights |-> Len(path)]

\* what the transaction of save_paths_batch has written after stmts
\* statements: the flights insert, one paths insert per path, the
\* path_flights insert
save_paths_batch_writes(dbv, paths_batch, seq, stmts) ==
    LET n == Len(paths_batch)
        np == IF stmts = 0 THEN 0
              ELSE IF stmts - 1 < n THEN stmts - 1 ELSE n
        after == insert_flights(dbv.flights, flight_data(paths_batch))
    IN [flights |-> IF stmts >= 1
                    THEN SubSeq(after, Len(dbv.flights) + 1, Len(after))
                    ELSE <<>>,
        paths |-> [i \in 1..np |-> paths_row(paths_batch[i].path, seq + i)],
        path_flights |-> IF stmts >= n + 2
                         THEN UNION {path_flights_data(paths_batch[i].path, seq + i)
                                     : i \in 1..n}
                         ELSE {}]

commit(dbv, t) ==
    [flights |-> dbv.flights \o t.flights,
     paths |-> dbv.paths \cup Range(t.paths),
     path_flights |-> dbv.path_flights \cup t.path_flights]

\* a rollback that leaves the written rows in place
rollback_keeps(dbv, t) == commit(dbv, t)

rollback(dbv, t) == dbv

\* the loop test of database_worker reduced to the stop flag
worker_continues_stop_only(stop, q) == ~stop

\* line 183: while not stop_event.is_set() or not path_queue.empty()
worker_continues(stop, q) == ~stop \/ q # <<>>

\* leaving the loop without the final flush
exit_pc_noflush(batch) == "done"

\* lines 208-212: "if current_batch:" flush once more, else finish
exit_pc(batch) == IF batch # <<>> THEN "lock" ELSE "done"

\* a handler that forgets to reset current_batch
batch_after_flush_kept(batch, final) == batch

\* lines 193, 200, 206: current_batch = [] after a flush in the loop;
\* the final flush leaves the list as it is
batch_after_flush(batch, final) == IF final THEN batch ELSE <<>>

BatchIds(b) == {b[i].id : i \in 1..Len(b)}

InitPP ==
    /\ path_queue = <<>>
    /\ stop_event = FALSE
    /\ paths_found = 0
    /\ paths_saved = 0
    /\ save_lock = 0
    /\ mainPc = "start"
    /\ prodPc = "idle"
    /\ pending = <<>>
    /\ emitted = 0
    /\ stop_requested = FALSE
    /\ wpc = [w \in Workers |-> "unstarted"]
    /\ current_batch = [w \in Workers |-> <<>>]
    /\ final_flush = [w \in Workers |-> FALSE]
    /\ db = EmptyDb
    /\ path_id_seq = 0
    /\ enq_before_stop = {}
    /\ flush_attempted = {}
    /\ committed = {}
    /\ lost = {}

Init ==
    /\ InitPP
    /\ origin = "A" /\ cutoff = 0 /\ min_nights = 0 /\ max_nights = 0
    /\ ClosedPathsOff
    /\ GraphWalkOff
    /\ ExtrasOff

prodVars == <<prodPc, pending, emitted, stop_requested>>
workerVars == <<wpc, current_batch, final_flush>>
storeVars == <<db, path_id_seq, paths_saved, save_lock>>
histVars == <<enq_before_stop, flush_attempted, committed, lost>>
otherVars == <<paramVars, cpVars, gwVars, exVars>>

\* the native producer emits a bounded number of paths and, once asked to
\* stop (stop_processing), starts no further callback
producer_may_emit == ~stop_requested /\ emitted < MaxEmit

\* process_paths, lines 252-258: clear the flag, start the workers
StartWorkers ==
    /\ mainPc = "start"
    /\ stop_event' = FALSE
    /\ wpc' = [w \in Workers |-> "connect"]
    /\ mainPc' = "processing"
    /\ UNCHANGED <<path_queue, paths_found, prodVars, current_batch,
                   final_flush, storeVars, histVars, otherVars>>

\* finder.process invokes path_callback with one itinerary; path_callback
\* builds path_data and reaches the put
CallbackInvoked ==
    /\ mainPc = "processing" /\ prodPc = "idle"
    /\ producer_may_emit
    /\ pending' = [id |-> emitted + 1,
                   path |-> path_data_of(EmittedPath(emitted + 1))]
    /\ emitted' = emitted + 1
    /\ prodPc' = "put"
    /\ UNCHANGED <<path_queue, stop_event, paths_found, mainPc,
                   stop_requested, workerVars, storeVars, histVars, otherVars>>

Enqueue ==
    /\ path_queue' = Append(path_queue, pending)
    /\ paths_found' = paths_found + 1
    /\ enq_before_stop' = IF stop_event THEN enq_before_stop
                          ELSE enq_before_stop \cup {pending.id}
    /\ pending' = <<>>
    /\ prodPc' = "idle"

\* self.path_queue.put(path_data): block=True, no timeout
CallbackPut ==
    /\ prodPc = "put"
    /\ IF Len(path_queue) < QueueMaxsize
       THEN Enqueue
       ELSE /\ prodPc' = "waiting"
            /\ UNCHANGED <<path_queue, paths_found, enq_before_stop, pending>>
    /\ UNCHANGED <<stop_event, mainPc, emitted, stop_requested, workerVars,
                   storeVars, flush_attempted, committed, lost, otherVars>>

\* the put waiting on not_full is woken once a slot is free
CallbackPutResumes ==
    /\ prodPc = "waiting"
    /\ Len(path_queue) < QueueMaxsize
    /\ Enqueue
    /\ UNCHANGED <<stop_event, mainPc, emitted, stop_requested, workerVars,
                   storeVars, flush_attempted, committed, lost, otherVars>>

\* signal_handler: finder.stop_processing(); self.stop_event.set()
SignalHandler ==
    /\ mainPc = "processing"
    /\ ~stop_requested
    /\ stop_requested' = TRUE
    /\ stop_event' = TRUE
    /\ UNCHANGED <<path_queue, paths_found, mainPc, prodPc, pending, emitted,
                   workerVars, storeVars, histVars, otherVars>>

\* finder.process returns (or raises); handlers are restored
FinderReturns ==
    /\ mainPc = "processing" /\ prodPc = "idle"
    /\ mainPc' = "finally"
    /\ UNCHANGED <<path_queue, stop_event, paths_found, prodVars, workerVars,
                   storeVars, histVars, otherVars>>

\* finally: self.stop_event.set()
SetStop ==
    /\ mainPc = "finally"
    /\ stop_event' = TRUE
    /\ mainPc' = "join"
    /\ UNCHANGED <<path_queue, paths_found, prodVars, workerVars, storeVars,
                   histVars, otherVars>>

\* for worker in self.db_workers: worker.join(); return self.paths_saved
JoinWorkers ==
    /\ mainPc = "join"
    /\ \A w \in Workers : wpc[w] \in {"done", "dead"}
    /\ mainPc' = "returned"
    /\ UNCHANGED <<path_queue, stop_event, paths_found, prodVars, workerVars,
                   storeVars, histVars, otherVars>>

\* database_connection: psycopg2.connect succeeds
Connect(w) ==
    /\ wpc[w] = "connect"
    /\ wpc' = [wpc EXCEPT ![w] = "loop"]
    /\ UNCHANGED <<path_queue, stop_event, paths_found, mainPc, prodVars,
                   current_batch, final_flush, storeVars, histVars, otherVars>>

\* database_connection: psycopg2.connect raises, the thread ends
ConnectFails(w) ==
    /\ wpc[w] = "connect"
    /\ wpc' = [wpc EXCEPT ![w] = "dead"]
    /\ UNCHANGED <<path_queue, stop_event, paths_found, mainPc, prodVars,
                   current_batch, final_flush, storeVars, histVars, otherVars>>

\* the while test; stop_event is only ever set while workers run, so
\* reading the flag and then the queue is one observation
LoopTest(w) ==
    /\ wpc[w] = "loop"
    /\ IF worker_continues(stop_event, path_queue)
       THEN /\ wpc' = [wpc EXCEPT ![w] = "get"]
            /\ UNCHANGED final_flush
       ELSE /\ wpc' = [wpc EXCEPT ![w] = exit_pc(current_batch[w])]
            /\ final_flush' = [final_flush EXCEPT ![w] = TRUE]
    /\ UNCHANGED <<path_queue, stop_event, paths_found, mainPc, prodVars,
                   current_batch, storeVars, histVars, otherVars>>

\* path_queue.get(timeout=1.0) returns an item
GetItem(w) ==
    /\ wpc[w] = "get"
    /\ path_queue # <<>>
    /\ path_queue' = Tail(path_queue)
    /\ current_batch' = [current_batch EXCEPT ![w] = Append(@, Head(path_queue))]
    /\ wpc' = [wpc EXCEPT ![w] =
                  IF Len(current_batch'[w]) >= batch_size THEN "lock" ELSE "loop"]
    /\ UNCHANGED <<stop_event, paths_found, mainPc, prodVars, final_flush,
                   storeVars, histVars, otherVars>>

\* path_queue.get(timeout=1.0) raises queue.Empty
GetTimeout(w) ==
    /\ wpc[w] = "get"
    /\ path_queue = <<>>
    /\ wpc' = [wpc EXCEPT ![w] =
                  IF current_batch[w] # <<>> THEN "lock" ELSE "loop"]
    /\ UNCHANGED <<path_queue, stop_event, paths_found, mainPc, prodVars,
                   current_batch, final_flush, storeVars, histVars, otherVars>>

\* a save_lock that lets a thread in whoever holds it
lock_acquirable_always(lock) == TRUE

\* threading.Lock: acquire goes through when no thread holds the lock
\* (0 stands for "released", w for "held by worker w")
lock_acquirable(lock) == lock = 0

\* with self.save_lock: self.save_paths_batch(conn, current_batch)
AcquireSaveLock(w) ==
    /\ wpc[w] = "lock"
    /\ lock_acquirable(save_lock)
    /\ save_lock' = w
    /\ flush_attempted' = flush_attempted \cup BatchIds(current_batch[w])
    /\ wpc' = [wpc EXCEPT ![w] = "saving"]
    /\ UNCHANGED <<path_queue, stop_event, paths_found, mainPc, prodVars,
                   current_batch, final_flush, db, path_id_seq,
                   paths_saved, enq_before_stop, committed, lost, otherVars>>

\* where the worker goes after a flush, and what is left of its batch
AfterFlushPc(w) == IF final_flush[w] THEN "done" ELSE "loop"
AfterFlushBatch(w) == batch_after_flush(current_batch[w], final_flush[w])

\* save_paths_batch runs to the end: conn.commit();
\* self.paths_saved += len(paths_batch); the lock is released and the
\* loop resets current_batch
SaveBatchCommits(w) ==
    /\ wpc[w] = "saving"
    /\ LET n == Len(current_batch[w])
           t == save_paths_batch_writes(db, current_batch[w], path_id_seq, n + 2)
       IN /\ db' = commit(db, t)
          /\ committed' = committed \cup
                 {[item |-> current_batch[w][i], path_id |-> t.paths[i].path_id]
                  : i \in 1..n}
          /\ path_id_seq' = path_id_seq + n
          /\ paths_saved' = paths_saved + n
    /\ save_lock' = 0
    /\ wpc' = [wpc EXCEPT ![w] = AfterFlushPc(w)]
    /\ current_batch' = [current_batch EXCEPT ![w] = AfterFlushBatch(w)]
    /\ UNCHANGED <<path_queue, stop_event, paths_found, mainPc, prodVars,
                   final_flush, enq_before_stop, flush_attempted,
                   lost, otherVars>>

\* a statement (after stmts of them ran) or the commit raises:
\* conn.rollback(); raise; the worker logs the lost batch and resets it
\* (lines 172-175, 202-206, 213-214); the serial values drawn are not
\* given back
SaveBatchFails(w) ==
    /\ wpc[w] = "saving"
    /\ \E stmts \in 0..(Len(current_batch[w]) + 2) :
           LET t == save_paths_batch_writes(db, current_batch[w],
                                            path_id_seq, stmts)
           IN /\ db' = rollback(db, t)
              /\ path_id_seq' = path_id_seq + Len(t.paths)
    /\ lost' = lost \cup BatchIds(current_batch[w])
    /\ save_lock' = 0
    /\ wpc' = [wpc EXCEPT ![w] = AfterFlushPc(w)]
    /\ current_batch' = [current_batch EXCEPT ![w] = AfterFlushBatch(w)]
    /\ UNCHANGED <<path_queue, stop_event, paths_found, mainPc, prodVars,
                   final_flush, paths_saved, enq_before_stop,
                   flush_attempted, committed, otherVars>>

Next ==
    \/ StartWorkers
    \/ CallbackInvoked
    \/ CallbackPut
    \/ CallbackPutResumes
    \/ SignalHandler
    \/ FinderReturns
    \/ SetStop
    \/ JoinWorkers
    \/ \E w \in Workers : Connect(w)
    \/ \E w \in Workers : ConnectFails(w)
    \/ \E w \in Workers : LoopTest(w)
    \/ \E w \in Workers : GetItem(w)
    \/ \E w \in Workers : GetTimeout(w)
    \/ \E w \in Workers : AcquireSaveLock(w)
    \/ \E w \in Workers : SaveBatchCommits(w)
    \/ \E w \in Workers : SaveBatchFails(w)

Spec == Init /\ [][Next]_vars

\* the steps of the thread that runs process_paths and the callbacks, and
\* the steps of database worker w; the arrival of a signal is not one of
\* them
MainThreadStep ==
    \/ StartWorkers
    \/ CallbackInvoked
    \/ CallbackPut
    \/ CallbackPutResumes
    \/ FinderReturns
    \/ SetStop
    \/ JoinWorkers

WorkerStep(w) ==
    \/ Connect(w)
    \/ ConnectFails(w)
    \/ LoopTest(w)
    \/ GetItem(w)
    \/ GetTimeout(w)
    \/ AcquireSaveLock(w)
    \/ SaveBatchCommits(w)
    \/ SaveBatchFails(w)

\* every thread that can take a step is scheduled again
SpecFair ==
    /\ Init /\ [][Next]_vars
    /\ WF_vars(MainThreadStep)
    /\ \A w \in Workers : WF_vars(WorkerStep(w))
\* --- readings of the storage used by the properties
CommittedIds == {c.item.id : c \in committed}
QueueIds == BatchIds(path_queue)
PathFlightsOf(pid) == {pf \in db.path_flights : pf.path_id = pid}

\* C4: enqueue never blocks the producer: a path_callback that reaches the
\* put while the queue is at capacity returns at once, the itinerary is
\* dropped (not enqueued, paths_found not incremented).
C4_EnqueueNeverBlocks ==
    [][(prodPc = "put" /\ Len(path_queue) >= QueueMaxsize /\ prodPc' # prodPc)
       => (prodPc' = "idle" /\ path_queue' = path_queue
           /\ paths_found' = paths_found)]_vars

C6_CommittedInLegOrder ==
    /\ Cardinality(db.paths) = Cardinality(committed)
    /\ \A c \in committed :
           LET path == c.item.path
               n == Len(path)
               rows == {p \in db.paths : p.path_id = c.path_id}
           IN /\ Cardinality(rows) = 1
              /\ \A p \in rows :
                     /\ p.origin = path[1].origin
                     /\ p.total_cost = SumSeq([i \in 1..n |-> path[i].cost])
                     /\ p.num_flights = n
              /\ Cardinality(PathFlightsOf(c.path_id)) = n
              /\ \A i \in 1..n :
                     \E pf \in PathFlightsOf(c.path_id) :
                         pf.sequence_num = i - 1 /\ pf.flight_key = path[i].key

C6_Witness ==
    /\ Cardinality(committed) = 2
    /\ \E c \in committed : Len(c.item.path) = 4
    /\ paths_saved = 2

C7_UniqueKeys ==
    \A i, j \in 1..Len(db.flights) :
        i # j => db.flights[i].flight_key # db.flights[j].flight_key

C7_RowsKept ==
    \A i \in 1..Len(db.flights) :
        i <= Len(db.flights') /\ db.flights'[i] = db.flights[i]

\* C7: the flights table holds at most one row per flight_key, whatever
\* the batches and workers, and a stored row is never changed by a later
\* occurrence of its key.
C7_OneRowPerFlightKey == []C7_UniqueKeys /\ [][C7_RowsKept]_vars

\* two itineraries are committed that carry different costs for one key
C7_Witness ==
    /\ Len(db.flights) >= 1
    /\ \E c1, c2 \in committed :
           /\ c1.item.path[1].key = c2.item.path[1].key
           /\ c1.item.path[1].cost # c2.item.path[1].cost
           /\ \E i \in 1..Len(db.flights) :
                  /\ db.flights[i].flight_key = c1.item.path[1].key
                  /\ db.flights[i].cost = c1.item.path[1].cost

C8_AtMostOnce ==
    /\ lost \cap CommittedIds = {}
    /\ lost \cap QueueIds = {}
    /\ \A c1, c2 \in committed : c1.item.id = c2.item.id => c1 = c2
    /\ \A w \in Workers :
           wpc[w] # "done" => BatchIds(current_batch[w]) \cap lost = {}
    /\ \A w \in Workers :
           wpc[w] \notin {"saving", "done"} =>
               BatchIds(current_batch[w]) \cap CommittedIds = {}

C8_FailedFlushStep ==
    \A w \in Workers :
        (wpc[w] = "saving" /\ lost' # lost /\ wpc'[w] # "saving") =>
            /\ db' = db
            /\ ~final_flush[w] => (wpc'[w] = "loop" /\ current_batch'[w] = <<>>)

C9_WholeBatchesOnly ==
    /\ \A p \in db.paths :
           /\ \E c \in committed : c.path_id = p.path_id
           /\ \A k \in 0..(p.num_flights - 1) :
                  Cardinality({pf \in PathFlightsOf(p.path_id) :
                                  pf.sequence_num = k}) = 1
    /\ \A pf \in db.path_flights :
           /\ HasKey(db.flights, pf.flight_key)
           /\ \E p \in db.paths :
                  p.path_id = pf.path_id /\ pf.sequence_num < p.num_flights
    /\ \A i \in 1..Len(db.flights) :
           \E c \in committed : \E j \in 1..Len(c.item.path) :
               c.item.path[j].key = db.flights[i].flight_key

C9_Witness ==
    /\ mainPc = "returned"
    /\ stop_requested
    /\ lost # {}
    /\ db.paths # {}

C10_ExitStep ==
    \A w \in Workers :
        (wpc[w] = "loop" /\ wpc'[w] \in {"lock", "done"}) =>
            (stop_event /\ path_queue = <<>>)

C10_FinalFlush ==
    \A w \in Workers :
        wpc[w] = "done" => BatchIds(current_batch[w]) \subseteq flush_attempted

\* C10: a worker leaves its loop only when it observes the stop flag set
\* and the queue empty, and it finishes only after a flush was attempted
\* on the partial batch it still held.
C10_DrainThenExit == [][C10_ExitStep]_vars /\ []C10_FinalFlush

C10_Witness ==
    \E w \in Workers :
        /\ wpc[w] = "done"
        /\ current_batch[w] # <<>>
        /\ \E v \in Workers : v # w /\ wpc[v] = "done"
\* ------------------------------------------------------------------------
\* ItineraryExpander, strategy B: path-driven backtracking
\* (find_multi_city_trips_v2, called at optimizers.py:255)
\* ------------------------------------------------------------------------
\* the connection feasibility rule between a chosen leg and the next one
feasibility_rule(mn, mx, prev_leg, next_leg) ==
    /\ next_leg.dep_time > prev_leg.arr_time
    /\ LET gap == next_leg.dep_time - prev_leg.arr_time IN
       IF mn = 0 THEN gap >= 2
       ELSE mn <= days(gap) /\ days(gap) <= mx

\* the flights of one city pair
fares_between(fnm, u, v) ==
    IF u \in DOMAIN fnm /\ v \in DOMAIN fnm[u] THEN fnm[u][v] ELSE <<>>

\* the Trip of a fully chosen leg sequence
materialize_trip(legs) ==
    [flights |-> legs,
     total_cost |-> SumSeq([i \in 1..Len(legs) |-> legs[i].fare]),
     total_duration |-> legs[Len(legs)].arr_time - legs[1].dep_time,
     stays |-> [i \in 1..(Len(legs) - 1) |->
                   [location |-> legs[i].destination,
                    duration |-> legs[i + 1].dep_time - legs[i].arr_time]]]

RECURSIVE backtrack(_, _, _, _, _)
RECURSIVE backtrack_flights(_, _, _, _, _, _)

\* legs chosen so far along the city sequence path; the value is the list
\* of trips found below this point
backtrack(fnm, mn, mx, path, chosen) ==
    IF Len(chosen) = Len(path) - 1 THEN <<materialize_trip(chosen)>>
    ELSE backtrack_flights(fnm, mn, mx, path, chosen, 1)

backtrack_flights(fnm, mn, mx, path, chosen, j) ==
    LET i == Len(chosen) + 1
        flights == fares_between(fnm, path[i], path[i + 1])
    IN IF j > Len(flights) THEN <<>>
       ELSE (IF i > 1 /\ ~feasibility_rule(mn, mx, chosen[i - 1], flights[j])
             THEN <<>>
             ELSE backtrack(fnm, mn, mx, path, Append(chosen, flights[j])))
            \o backtrack_flights(fnm, mn, mx, path, chosen, j + 1)

RECURSIVE find_multi_city_trips_v2(_, _, _, _, _)
find_multi_city_trips_v2(paths, fnm, mn, mx, i) ==
    IF i > Len(paths) THEN <<>>
    ELSE backtrack(fnm, mn, mx, paths[i], <<>>)
         \o find_multi_city_trips_v2(paths, fnm, mn, mx, i + 1)

\* the fares both strategies are run on
ExpansionFares == {
    OneWayFare("A", "B", 0, 2, 10),
    OneWayFare("B", "C", 3, 5, 20),
    OneWayFare("B", "C", 4, 6, 25),
    OneWayFare("B", "C", 27, 29, 15),
    OneWayFare("C", "A", 31, 33, 30),
    OneWayFare("B", "A", 5, 7, 8),
    OneWayFare("C", "D", 8, 10, 7),
    OneWayFare("D", "A", 34, 36, 6) }

\* the topology of a fare map: a route wherever a flight is sold
RoutesOf(fnm) ==
    [o \in Nodes |-> SelectSeq(NodeSeq,
        LAMBDA d : d # o /\ fares_between(fnm, o, d) # <<>>)]

InitEX ==
    /\ origin = "A"
    /\ cutoff \in 0..MaxCutoff
    /\ min_nights \in 0..MaxNights
    /\ max_nights \in 0..MaxNights
    /\ \E S \in SUBSET ExpansionFares : fares_node_map = FaresNodeMapOf(S)
    /\ adjacency = RoutesOf(fares_node_map)
    /\ closed_paths = <<>> /\ cpPc = "input"
    /\ graph = EmptyGraph /\ valid_paths = <<>> /\ trips = <<>>
    /\ gwPc = "fares"
    /\ trips_v2 = <<>> /\ v2Pc = "paths"
    /\ PruneOff /\ RankOff /\ ArgsOff /\ AdjacencyBuildOff
    /\ CacheOff /\ RoundTripOff
    /\ PipelineOff

FindMultiCityTripsV2 ==
    /\ v2Pc = "paths"
    /\ cpPc = "done"
    /\ trips_v2' = find_multi_city_trips_v2(closed_paths, fares_node_map,
                                            min_nights, max_nights, 1)
    /\ v2Pc' = "done"
    /\ UNCHANGED <<paramVars, cpVars, gwVars, ppVars, fgVars, rkVars, argVars,
                   adjVars, cacheVars, rtVars>>

NextEX ==
    \/ RunFindClosedPaths
    \/ FindMultiCityTripsV2
    \/ BuildGraph
    \/ FindMultiCityTrips
    \/ FindMultiCityTripsNoFirstFlight

SpecExpansion == InitEX /\ [][NextEX]_vars

\* C11: the two strategies are equivalent: on the same fares, origin,
\* min_nights, max_nights and cutoff the graph-walk and the backtracking
\* over the closed paths of find_closed_paths produce the same set of trips.
C11_StrategiesEquivalent ==
    (gwPc = "done" /\ v2Pc = "done") => Range(trips) = Range(trips_v2)

\* ------------------------------------------------------------------------
\* Trips and itineraries of the graph-walk (SpecGraphWalk)
\* ------------------------------------------------------------------------
\* the price of the first n legs
RECURSIVE LegPriceSum(_, _)
LegPriceSum(legs, n) ==
    IF n = 0 THEN 0 ELSE LegPriceSum(legs, n - 1) + legs[n].fare

\* C12: for every trip built by path_to_trips from a non-empty itinerary,
\* total_cost is the sum of the leg prices, total_duration is the last
\* arrival minus the first departure, there is one stay less than legs, and
\* stay i is at the destination of leg i and lasts from leg i's arrival to
\* leg i+1's departure; each leg carries the data of its edge.
C12_TripTotals ==
    gwPc = "done" =>
        /\ Len(trips) = Len(valid_paths)
        /\ \A t \in 1..Len(trips) :
            LET legs == trips[t].flights
                path == valid_paths[t]
            IN /\ path # <<>>
               /\ Len(legs) = Len(path)
               /\ \A i \in 1..Len(legs) :
                      /\ legs[i].origin = path[i][1]
                      /\ legs[i].destination = path[i][2]
                      /\ get_flight_key(legs[i]) = path[i][3]
                      /\ \E f \in Range(FlattenFares(fares_node_map, 1, 1)) :
                             /\ get_flight_key(f) = path[i][3]
                             /\ f.fare = legs[i].fare
               /\ trips[t].total_cost = LegPriceSum(legs, Len(legs))
               /\ trips[t].total_duration
                      = legs[Len(legs)].arr_time - legs[1].dep_time
               /\ Len(trips[t].stays) = Len(legs) - 1
               /\ \A i \in 1..(Len(legs) - 1) :
                      /\ trips[t].stays[i].location = legs[i].destination
                      /\ trips[t].stays[i].duration
                             = legs[i + 1].dep_time - legs[i].arr_time

C12_Witness ==
    /\ gwPc = "done"
    /\ \E t \in 1..Len(trips) :
           /\ Len(trips[t].flights) = 4
           /\ trips[t].total_cost = 48
           /\ trips[t].total_duration = 36
           /\ Len(trips[t].stays) = 3
           /\ trips[t].stays[3] = [location |-> "D", duration |-> 24]

\* C13: in every itinerary of the graph-walk consecutive legs chain, the
\* origin is only the departure of the first leg and the arrival of the
\* last leg, no other airport is visited twice, and the number of legs is
\* at least 3 and at most cutoff (no 2-leg out-and-back is returned).
C13_ItineraryShape ==
    gwPc = "done" =>
        \A t \in 1..Len(valid_paths) :
            LET p == valid_paths[t] IN
            /\ Len(p) >= 3
            /\ Len(p) <= cutoff
            /\ p[1][1] = origin
            /\ p[Len(p)][2] = origin
            /\ \A i \in 1..(Len(p) - 1) :
                   /\ p[i][2] = p[i + 1][1]
                   /\ p[i][2] # origin
            /\ \A i, j \in 1..(Len(p) - 1) : i # j => p[i][2] # p[j][2]

\* a run in which an out-and-back A-B-A was feasible and a 4-leg itinerary
\* was returned
C13_Witness ==
    /\ gwPc = "done"
    /\ cutoff = 4 /\ min_nights = 0
    /\ InList(<<"A", "B", <<"A", 0, "B", 2>>>>, graph.edges)
    /\ InList(<<"B", "A", <<"B", 5, "A", 7>>>>, graph.edges)
    /\ \E t \in 1..Len(valid_paths) : Len(valid_paths[t]) = 4
\* ------------------------------------------------------------------------
\* FareGraphBuilder: get_reachable_graph, then preprocess_graph
\* ------------------------------------------------------------------------
MaxPrice == 30

\* the fares the graph is built from; two flights are reported twice, at
\* different prices
GraphFares == {
    OneWayFare("A", "B", 0, 2, 10),
    OneWayFare("A", "B", 0, 2, 12),
    OneWayFare("B", "C", 3, 5, 20),
    OneWayFare("B", "C", 3, 5, 5),
    OneWayFare("B", "C", 4, 6, 25),
    OneWayFare("C", "A", 31, 33, 30),
    OneWayFare("C", "D", 8, 10, 7),
    OneWayFare("D", "A", 34, 36, 6) }

Reverse(s) == [i \in 1..Len(s) |-> s[Len(s) + 1 - i]]

\* the same fares with every list in the opposite order
ReverseLists(fnm) ==
    [o \in DOMAIN fnm |-> [d \in DOMAIN fnm[o] |-> Reverse(fnm[o][d])]]

\* edges_to_remove with "at least max_price" in place of "more than"
RECURSIVE edges_to_remove_inclusive(_, _)
edges_to_remove_inclusive(g, mp) ==
    IF g.edges = <<>> THEN <<>>
    ELSE LET n == Len(g.edges)
             rest == edges_to_remove_inclusive(
                         [g EXCEPT !.edges = SubSeq(@, 1, n - 1),
                                   !.data = SubSeq(@, 1, n - 1)], mp)
         IN IF g.data[n].weight >= mp THEN Append(rest, g.edges[n]) ELSE rest

\* [(u, v, k) for u, v, k, data in graph.edges(...) if data['weight'] > max_price]
RECURSIVE edges_to_remove(_, _)
edges_to_remove(g, mp) ==
    IF g.edges = <<>> THEN <<>>
    ELSE LET n == Len(g.edges)
             rest == edges_to_remove(
                         [g EXCEPT !.edges = SubSeq(@, 1, n - 1),
                                   !.data = SubSeq(@, 1, n - 1)], mp)
         IN IF g.data[n].weight > mp THEN Append(rest, g.edges[n]) ELSE rest

\* graph.remove_edge(u, v, k)
remove_edge(g, e) ==
    IF ~InList(e, g.edges) THEN g
    ELSE LET k == EdgeIndex(g, e)
             n == Len(g.edges)
         IN [g EXCEPT !.edges = SubSeq(@, 1, k - 1) \o SubSeq(@, k + 1, n),
                      !.data = SubSeq(@, 1, k - 1) \o SubSeq(@, k + 1, n)]

\* graph.remove_edges_from(ebunch): edges not in the graph are ignored
RECURSIVE remove_edges_from(_, _)
remove_edges_from(g, ebunch) ==
    IF ebunch = <<>> THEN g
    ELSE remove_edges_from(remove_edge(g, Head(ebunch)), Tail(ebunch))

preprocess_graph(g, mp) == remove_edges_from(g, edges_to_remove(g, mp))

InitFG ==
    /\ origin = "A"
    /\ cutoff = 0 /\ min_nights = 0 /\ max_nights = 0
    /\ \E S \in SUBSET GraphFares, rev \in BOOLEAN :
          fares_node_map = IF rev THEN ReverseLists(FaresNodeMapOf(S))
                           ELSE FaresNodeMapOf(S)
    /\ graph = EmptyGraph /\ valid_paths = <<>> /\ trips = <<>>
    /\ gwPc = "fares"
    /\ max_price \in 0..MaxPrice
    /\ removed_count = 0
    /\ ClosedPathsOff /\ PipelineOff
    /\ BacktrackingOff /\ RankOff /\ ArgsOff /\ AdjacencyBuildOff
    /\ CacheOff /\ RoundTripOff

\* preprocess_graph: the graph is pruned in place, the number of edges
\* collected for removal is logged (line 32)
PreprocessGraph ==
    /\ gwPc = "graph"
    /\ graph' = preprocess_graph(graph, max_price)
    /\ removed_count' = Len(edges_to_remove(graph, max_price))
    /\ gwPc' = "pruned"
    /\ UNCHANGED <<paramVars, cpVars, ppVars, sbVars, rkVars, argVars, adjVars,
                   cacheVars, rtVars, fares_node_map, valid_paths, trips,
                   max_price>>

(***************************************************************************)
(* FareGraph cache: save_ryanair_graph / load_ryanair_graph                *)
(* (ryanair/utils/loaders.py)                                              *)
(***************************************************************************)

\* int(datetime.timestamp()) and datetime.fromtimestamp() for whole hours
timestamp(t) == t * SecondsPerHour
fromtimestamp(s) == s \div SecondsPerHour

\* the dictionary appended to graph_data[u] for one edge (lines 251-259)
edge_data_of(g, e) ==
    LET data == get_edge_data(g, e)
    IN [to |-> e[2], key |-> e[3],
        departure |-> timestamp(data.dep_time),
        arrival |-> timestamp(data.arr_time),
        weight |-> data.weight,
        currency |-> data.currency]

\* graph.edges(keys=True, data=True) restricted to the source u: by
\* neighbour, then by key
RECURSIVE out_edges(_, _, _)
out_edges(g, u, succ) ==
    IF succ = <<>> THEN <<>>
    ELSE edges_between(g, u, Head(succ)) \o out_edges(g, u, Tail(succ))

\* save_ryanair_graph: graph_data has one entry per node that is the
\* source of an edge, in node order; the value is the list of its edges
RECURSIVE save_ryanair_graph_from(_, _)
save_ryanair_graph_from(g, i) ==
    IF i > Len(g.nodes) THEN <<>>
    ELSE LET u == g.nodes[i]
             out == out_edges(g, u, successors(g, u))
             rest == save_ryanair_graph_from(g, i + 1)
         IN IF out = <<>> THEN rest
            ELSE << [from |-> u,
                     edges |-> [j \in 1..Len(out) |-> edge_data_of(g, out[j])]] >>
                 \o rest

save_ryanair_graph(g) == save_ryanair_graph_from(g, 1)

\* the inner loop of load_ryanair_graph over the edges of one entry
RECURSIVE load_edges(_, _, _)
load_edges(g, u, edges) ==
    IF edges = <<>> THEN g
    ELSE LET edge == Head(edges) IN
         load_edges(add_edge(g, u, edge.to, edge.key,
                             [dep_time |-> fromtimestamp(edge.departure),
                              arr_time |-> fromtimestamp(edge.arrival),
                              weight |-> edge.weight,
                              currency |-> edge.currency]),
                    u, Tail(edges))

\* load_ryanair_graph: a new MultiDiGraph filled by add_edge only
RECURSIVE load_ryanair_graph_into(_, _)
load_ryanair_graph_into(g, graph_data) ==
    IF graph_data = <<>> THEN g
    ELSE load_ryanair_graph_into(
             load_edges(g, Head(graph_data).from, Head(graph_data).edges),
             Tail(graph_data))

load_ryanair_graph(graph_data) == load_ryanair_graph_into(EmptyGraph, graph_data)

cacheRest == <<paramVars, cpVars, gwVars, ppVars, sbVars, fgVars, rkVars,
               argVars, adjVars, rtVars>>

\* save_ryanair_graph(reachable_graph, data_path) after preprocess_graph
SaveRyanairGraph ==
    /\ gwPc = "pruned" /\ cachePc = "off"
    /\ graph_file' = save_ryanair_graph(graph)
    /\ cachePc' = "saved"
    /\ UNCHANGED <<cacheRest, loaded_graph>>

LoadRyanairGraph ==
    /\ cachePc = "saved"
    /\ loaded_graph' = load_ryanair_graph(graph_file)
    /\ cachePc' = "loaded"
    /\ UNCHANGED <<cacheRest, graph_file>>


NextFG == BuildGraph \/ PreprocessGraph \/ SaveRyanairGraph \/ LoadRyanairGraph

SpecFareGraph == InitFG /\ [][NextFG]_vars

\* C14: after preprocess_graph(graph, max_price) no retained edge costs
\* more than max_price, every edge costing at most max_price is still
\* there with its data, and the reported count of removed edges is the
\* number of edges that left the graph.
C14_Prune ==
    [][(gwPc = "graph" /\ gwPc' = "pruned") =>
        /\ \A i \in 1..Len(graph'.edges) : graph'.data[i].weight <= max_price
        /\ \A i \in 1..Len(graph.edges) :
               graph.data[i].weight <= max_price =>
                   \E j \in 1..Len(graph'.edges) :
                       /\ graph'.edges[j] = graph.edges[i]
                       /\ graph'.data[j] = graph.data[i]
        /\ Len(graph'.edges) = Len(graph'.data)
        /\ removed_count' = Len(graph.edges) - Len(graph'.edges)]_vars

\* a prune that removed two edges and kept three
C14_Witness ==
    /\ gwPc = "pruned"
    /\ max_price = 10
    /\ removed_count = 2
    /\ Len(graph.edges) = 3

\* C16: get_reachable_graph makes exactly one edge per distinct flight key
\* (origin, departure, destination, arrival): fares with the same key share
\* one edge, fares with different keys have different edges, and every edge
\* runs from the origin to the destination of a fare with its key and has
\* that fare's times and price.
C16_OneEdgePerKey ==
    gwPc = "graph" =>
        LET fares == Range(FlattenFares(fares_node_map, 1, 1))
            keys == {get_flight_key(f) : f \in fares}
        IN /\ Len(graph.edges) = Cardinality(keys)
           /\ \A k \in keys :
                  Cardinality({i \in 1..Len(graph.edges) :
                                  graph.edges[i][3] = k}) = 1
           /\ \A i \in 1..Len(graph.edges) :
                  \E f \in fares :
                      /\ graph.edges[i]
                             = <<f.origin, f.destination, get_flight_key(f)>>
                      /\ graph.data[i].weight = f.fare
                      /\ graph.data[i].dep_time = f.dep_time
                      /\ graph.data[i].arr_time = f.arr_time

\* the flight A-B 0h-2h is reported at two prices and B-C leaves at 3h and
\* at 4h: three edges
C16_Witness ==
    /\ gwPc = "graph"
    /\ Len(fares_node_map["A"]["B"]) = 2
    /\ Len(fares_node_map["B"]["C"]) = 2
    /\ fares_node_map["B"]["C"][1].dep_time # fares_node_map["B"]["C"][2].dep_time
    /\ Len(graph.edges) = 3
\* ------------------------------------------------------------------------
\* TripRanker: trips.sort(key=lambda trip: trip.total_cost)
\* ------------------------------------------------------------------------
MaxTrips == 3

\* the trips to rank: all 3-leg trips over the fares below, some of them
\* of equal cost
RankFares == FareUniverse \cup {OneWayFare("C", "A", 32, 34, 30)}
RankGraph == get_reachable_graph("A", FaresNodeMapOf(RankFares))
TripUniverse ==
    Range(path_to_trips(RankGraph, get_valid_paths(RankGraph, "A", 0, 0, 3)))

\* insertion that puts a trip before the trips of equal cost
RECURSIVE insert_by_cost_before_equal(_, _)
insert_by_cost_before_equal(s, x) ==
    IF s = <<>> THEN <<x>>
    ELSE IF x.total_cost <= s[1].total_cost THEN <<x>> \o s
    ELSE <<s[1]>> \o insert_by_cost_before_equal(Tail(s), x)

\* a trip goes after every trip whose key is not greater (the sort is
\* stable)
RECURSIVE insert_by_cost(_, _)
insert_by_cost(s, x) ==
    IF s = <<>> THEN <<x>>
    ELSE IF x.total_cost < s[1].total_cost THEN <<x>> \o s
    ELSE <<s[1]>> \o insert_by_cost(Tail(s), x)

\* list.sort(key=total_cost)
RECURSIVE sort_by_total_cost(_)
sort_by_total_cost(s) ==
    IF s = <<>> THEN <<>>
    ELSE insert_by_cost(sort_by_total_cost(SubSeq(s, 1, Len(s) - 1)),
                        s[Len(s)])

InitRank ==
    /\ origin = "A"
    /\ cutoff = 0 /\ min_nights = 0 /\ max_nights = 0
    /\ fares_node_map = <<>> /\ graph = <<>> /\ valid_paths = <<>>
    /\ gwPc = "off"
    /\ \E k \in 0..MaxTrips : trips \in [1..k -> TripUniverse]
    /\ rankPc = "unsorted"
    /\ ClosedPathsOff /\ PipelineOff
    /\ BacktrackingOff /\ PruneOff /\ ArgsOff /\ AdjacencyBuildOff
    /\ CacheOff /\ RoundTripOff

SortTrips ==
    /\ rankPc = "unsorted"
    /\ trips' = sort_by_total_cost(trips)
    /\ rankPc' = "sorted"
    /\ UNCHANGED <<paramVars, cpVars, ppVars, sbVars, fgVars, argVars, adjVars,
                   cacheVars, rtVars, fares_node_map, graph, valid_paths, gwPc>>

NextRank == SortTrips

SpecRank == InitRank /\ [][NextRank]_vars

Occurrences(x, s) == Cardinality({i \in 1..Len(s) : s[i] = x})

NonDecreasing(s) ==
    \A i \in 1..(Len(s) - 1) : s[i].total_cost <= s[i + 1].total_cost

\* C15: ranking yields a permutation of the input that is non-decreasing
\* in total_cost, for every input list (empty and single-element lists
\* included), and leaves a list that is already ranked unchanged.
C15_Ranking ==
    [][(rankPc = "unsorted" /\ rankPc' = "sorted") =>
        /\ Len(trips') = Len(trips)
        /\ \A x \in Range(trips) \cup Range(trips') :
               Occurrences(x, trips') = Occurrences(x, trips)
        /\ NonDecreasing(trips')
        /\ (NonDecreasing(trips) => trips' = trips)
        /\ sort_by_total_cost(trips') = trips']_vars

\* three ranked trips, the last two different and of equal cost
C15_Witness ==
    /\ rankPc = "sorted"
    /\ Len(trips) = 3
    /\ trips[1].total_cost < trips[2].total_cost
    /\ trips[2].total_cost = trips[3].total_cost
    /\ trips[2] # trips[3]
\* ------------------------------------------------------------------------
\* main(): the --cutoff argument (type=check_positive, default=4), then
\* optimizer_multi_trip's call of find_closed_paths
\* ------------------------------------------------------------------------
DefaultCutoff == 4

\* the command line: no --cutoff (the empty list), or --cutoff with an
\* integer
CutoffArgs == {<<>>} \cup {<<v>> : v \in (0 - MaxCutoff)..MaxCutoff}

\* check_positive: raises ArgumentTypeError, or returns int(value)
check_positive_raises(value) == value < 0
check_positive(value) == value

InitArgs ==
    /\ origin = "A"
    /\ cutoff = 0 /\ min_nights = 0 /\ max_nights = 0
    /\ cutoff_arg \in CutoffArgs
    /\ argPc = "argv"
    /\ \E la \in ListsOver({"B", "C"}), lb \in ListsOver({"A", "C"}),
          lc \in ListsOver({"A", "B"}) :
          adjacency = [n \in Nodes |-> CASE n = "A" -> la [] n = "B" -> lb
                                          [] n = "C" -> lc [] OTHER -> <<>>]
    /\ closed_paths = <<>>
    /\ cpPc = "args"
    /\ GraphWalkOff /\ PipelineOff
    /\ BacktrackingOff /\ PruneOff /\ RankOff /\ AdjacencyBuildOff
    /\ CacheOff /\ RoundTripOff

\* parse_args: no --cutoff gives the default, an accepted value is stored
ParseArgsAccepts ==
    /\ argPc = "argv"
    /\ IF cutoff_arg = <<>> THEN TRUE
       ELSE ~check_positive_raises(cutoff_arg[1])
    /\ cutoff' = IF cutoff_arg = <<>> THEN DefaultCutoff
                 ELSE check_positive(cutoff_arg[1])
    /\ argPc' = "parsed"
    /\ cpPc' = "input"
    /\ UNCHANGED <<origin, min_nights, max_nights, adjacency, closed_paths,
                   gwVars, ppVars, sbVars, fgVars, rkVars, cutoff_arg, adjVars,
                   cacheVars, rtVars>>

\* parse_args: ArgumentTypeError makes argparse print the usage and exit
ParseArgsRejects ==
    /\ argPc = "argv"
    /\ cutoff_arg # <<>>
    /\ check_positive_raises(cutoff_arg[1])
    /\ argPc' = "usage_error"
    /\ UNCHANGED <<paramVars, cpVars, gwVars, ppVars, sbVars, fgVars, rkVars,
                   cutoff_arg, adjVars, cacheVars, rtVars>>

NextArgs == ParseArgsAccepts \/ ParseArgsRejects \/ RunFindClosedPaths

SpecArgs == InitArgs /\ [][NextArgs]_vars

\* C17: a cutoff of zero or below is rejected before any search:
\* find_closed_paths never runs with cutoff <= 0.
C17_NonPositiveCutoffRejected ==
    cpPc = "done" => cutoff > 0
\* ------------------------------------------------------------------------
\* AdjacencyBuilder: get_adjacency_list(ryanair, dests)
\* ------------------------------------------------------------------------
\* failed attempts of one request that the model follows (Ryanair.get
\* retries without a limit)
MaxRetries == 1

\* ryanair.active_airports; the route service may also report an airport
\* that is not in this list
ActiveAirports == <<"A", "B", "C">>

\* the lists over S that keep the order of NodeSeq
OrderedLists(S) == {SelectSeq(NodeSeq, LAMBDA n : n \in T) : T \in SUBSET S}

\* the airports added to ryanair_network (lines 269-275)
candidate_nodes(allow) ==
    IF allow # <<>>
    THEN SelectSeq(ActiveAirports, LAMBDA a : InList(a, allow))
    ELSE ActiveAirports

\* the destinations kept for a code (lines 295 and 301)
kept_dests(allow, reported) ==
    IF allow # <<>>
    THEN SelectSeq(reported, LAMBDA d : InList(d, allow))
    ELSE reported

\* the adjacency dict with every candidate entered, whatever its list
build_adjacency_keep_empty(nodes, dbn, allow) ==
    [code \in Range(nodes) |->
        kept_dests(allow, dbn[CHOOSE i \in 1..Len(nodes) : nodes[i] = code])]

\* the adjacency dict of lines 292-303: a code is entered only with a
\* non-empty list
build_adjacency(nodes, dbn, allow) ==
    LET keep == {i \in 1..Len(nodes) : kept_dests(allow, dbn[i]) # <<>>}
    IN [code \in {nodes[i] : i \in keep} |->
           kept_dests(allow, dbn[CHOOSE i \in keep : nodes[i] = code])]

\* ryanair_network.add_edge(code, dest) adds dest as a node when it is not
\* one yet, while the loop iterates over ryanair_network.nodes
changes_nodes_during_iteration(nodes, dbn, allow) ==
    \E i \in 1..Len(nodes) :
        \E d \in Range(kept_dests(allow, dbn[i])) : ~InList(d, nodes)

InitAdj ==
    /\ origin = "A"
    /\ cutoff = 0 /\ min_nights = 0 /\ max_nights = 0
    /\ dests \in OrderedLists(Nodes)
    /\ \E ra \in OrderedLists(Nodes \ {"A"}), rb \in OrderedLists(Nodes \ {"B"}),
          rc \in OrderedLists(Nodes \ {"C"}) :
          route_service = [n \in Range(ActiveAirports) |->
              CASE n = "A" -> ra [] n = "B" -> rb [] OTHER -> rc]
    /\ network_nodes = <<>>
    /\ destinations_by_node = <<>>
    /\ adjPc = "start"
    /\ attempts = 0
    /\ fetch_failed = {}
    /\ adjacency = <<>> /\ closed_paths = <<>> /\ cpPc = "off"
    /\ GraphWalkOff /\ PipelineOff
    /\ BacktrackingOff /\ PruneOff /\ RankOff /\ ArgsOff
    /\ CacheOff /\ RoundTripOff

adjRest == <<paramVars, gwVars, ppVars, sbVars, fgVars, rkVars, argVars,
             cacheVars, rtVars, closed_paths, cpPc, dests, route_service>>

\* lines 266-285: the candidates, then the pool
CollectCandidates ==
    /\ adjPc = "start"
    /\ candidate_nodes(dests) # <<>>
    /\ network_nodes' = candidate_nodes(dests)
    /\ adjPc' = "fetching"
    /\ UNCHANGED <<adjRest, adjacency, destinations_by_node, attempts,
                   fetch_failed>>

\* mp.Pool(0) raises ValueError when there is no candidate
CollectCandidatesNoProcess ==
    /\ adjPc = "start"
    /\ candidate_nodes(dests) = <<>>
    /\ network_nodes' = candidate_nodes(dests)
    /\ adjPc' = "error"
    /\ UNCHANGED <<adjRest, adjacency, destinations_by_node, attempts,
                   fetch_failed>>

\* the code whose destinations are being fetched
current_code == network_nodes[Len(destinations_by_node) + 1]

\* Ryanair.get: the request raises (connection error, timeout, HTTP error
\* status), a warning is logged and the request is repeated
RequestFails ==
    /\ adjPc = "fetching"
    /\ attempts < MaxRetries
    /\ attempts' = attempts + 1
    /\ fetch_failed' = fetch_failed \cup {current_code}
    /\ UNCHANGED <<adjRest, adjacency, network_nodes, destinations_by_node,
                   adjPc>>

\* get_destination_codes returns the codes of the response
RequestReturns ==
    /\ adjPc = "fetching"
    /\ destinations_by_node' =
           Append(destinations_by_node, route_service[current_code])
    /\ attempts' = 0
    /\ adjPc' = IF Len(destinations_by_node') = Len(network_nodes)
                THEN "fetched" ELSE "fetching"
    /\ UNCHANGED <<adjRest, adjacency, network_nodes, fetch_failed>>

\* the response is not a list of routes: res.json() or the indexing of
\* line 205 raises, pool.map re-raises in get_adjacency_list
ResponseMalformed ==
    /\ adjPc = "fetching"
    /\ fetch_failed' = fetch_failed \cup {current_code}
    /\ adjPc' = "aborted"
    /\ UNCHANGED <<adjRest, adjacency, network_nodes, destinations_by_node,
                   attempts>>

\* lines 291-305
BuildAdjacency ==
    /\ adjPc = "fetched"
    /\ ~changes_nodes_during_iteration(network_nodes, destinations_by_node,
                                       dests)
    /\ adjacency' = build_adjacency(network_nodes, destinations_by_node, dests)
    /\ adjPc' = "done"
    /\ UNCHANGED <<adjRest, network_nodes, destinations_by_node, attempts,
                   fetch_failed>>

\* RuntimeError: dictionary changed size during iteration
BuildAdjacencyNodeAdded ==
    /\ adjPc = "fetched"
    /\ changes_nodes_during_iteration(network_nodes, destinations_by_node,
                                      dests)
    /\ adjPc' = "aborted"
    /\ UNCHANGED <<adjRest, adjacency, network_nodes, destinations_by_node,
                   attempts, fetch_failed>>

NextAdj ==
    \/ CollectCandidates
    \/ CollectCandidatesNoProcess
    \/ RequestFails
    \/ RequestReturns
    \/ ResponseMalformed
    \/ BuildAdjacency
    \/ BuildAdjacencyNodeAdded

SpecAdjacency == InitAdj /\ [][NextAdj]_vars

\* C18: the returned map has no key with an empty destination list, every
\* listed destination was reported by the route service for that code, and
\* with an allow-list every listed destination is in the allow-list.
C18_AdjacencyEntries ==
    adjPc = "done" =>
        \A code \in DOMAIN adjacency :
            /\ adjacency[code] # <<>>
            /\ \A d \in Range(adjacency[code]) :
                   /\ InList(d, route_service[code])
                   /\ dests # <<>> => InList(d, dests)

\* with the allow-list [A, B, C]: C is dropped because its only route
\* leaves the allow-list, and A keeps B but not D
C18_Witness ==
    /\ adjPc = "done"
    /\ dests = <<"A", "B", "C">>
    /\ route_service["A"] = <<"B", "D">>
    /\ route_service["C"] = <<"D">>
    /\ adjacency["A"] = <<"B">>
    /\ "C" \notin DOMAIN adjacency

\* C19: with an allow-list, the origin is among the candidate airports of
\* the build even when the allow-list does not name it.
C19_OriginIsCandidate ==
    (adjPc \in {"fetching", "fetched", "done"} /\ dests # <<>>)
        => InList(origin, network_nodes)

\* C20: a failed destination fetch does not abort the build; the airport
\* whose fetch failed is absent from the map and every other candidate
\* has the entry the route service gives it.
C20_FetchFailureIsolated ==
    /\ adjPc = "aborted" => fetch_failed = {}
    /\ adjPc = "done" =>
           \A i \in 1..Len(network_nodes) :
               LET code == network_nodes[i] IN
               IF code \in fetch_failed THEN code \notin DOMAIN adjacency
               ELSE kept_dests(dests, route_service[code]) # <<>> =>
                        /\ code \in DOMAIN adjacency
                        /\ adjacency[code]
                               = kept_dests(dests, route_service[code])
\* ------------------------------------------------------------------------
\* Worked example of find_closed_paths (SpecClosedPaths)
\* ------------------------------------------------------------------------
ExampleAdjacency ==
    [n \in Nodes |-> CASE n = "A" -> <<"B", "C">> [] n = "B" -> <<"A", "D">>
                       [] n = "C" -> <<"A">> [] OTHER -> <<"B", "A">>]

\* C22: for the adjacency {A:[B,C], B:[A,D], C:[A], D:[B,A]}, origin A and
\* cutoff 3, find_closed_paths returns exactly the closed path [A,B,D,A];
\* the two-edge paths [A,B,A] and [A,C,A] are not returned.
C22_Example ==
    (cpPc = "done" /\ adjacency = ExampleAdjacency /\ origin = "A"
     /\ cutoff = 3) =>
        /\ closed_paths = << <<"A", "B", "D", "A">> >>
        /\ ~InList(<<"A", "B", "A">>, closed_paths)
        /\ ~InList(<<"A", "C", "A">>, closed_paths)

C22_Witness ==
    /\ cpPc = "done"
    /\ adjacency = ExampleAdjacency
    /\ origin = "A"
    /\ cutoff = 3
    /\ Len(closed_paths) = 1
SeqToSet(s) == {s[i] : i \in 1..Len(s)}

\* the five attributes of an edge are present and equal in both graphs
SameAttributes(d1, d2) ==
    /\ {"dep_time", "arr_time", "weight", "left", "currency"} \subseteq DOMAIN d2
    /\ d2.dep_time = d1.dep_time
    /\ d2.arr_time = d1.arr_time
    /\ d2.weight = d1.weight
    /\ d2.left = d1.left
    /\ d2.currency = d1.currency

\* C21: the graph loaded from a saved FareGraph has the same nodes, the
\* same edges (origin, destination, key) and, on every edge, the same
\* departure, arrival, price, seats-left and currency as the saved graph.
C21_CacheRoundTrip ==
    cachePc = "loaded" =>
        /\ SeqToSet(loaded_graph.nodes) = SeqToSet(graph.nodes)
        /\ SeqToSet(loaded_graph.edges) = SeqToSet(graph.edges)
        /\ \A e \in SeqToSet(graph.edges) :
              InList(e, loaded_graph.edges) =>
                  SameAttributes(get_edge_data(graph, e),
                                 get_edge_data(loaded_graph, e))

\* what the cache does keep: the edges, with departure, arrival, price
\* and currency; every node that has an edge
C21_EdgesKept ==
    cachePc = "loaded" =>
        /\ SeqToSet(loaded_graph.edges) = SeqToSet(graph.edges)
        /\ SeqToSet(loaded_graph.nodes) \subseteq SeqToSet(graph.nodes)
        /\ \A e \in SeqToSet(graph.edges) :
              LET d1 == get_edge_data(graph, e)
                  d2 == get_edge_data(loaded_graph, e)
              IN /\ d2.dep_time = d1.dep_time /\ d2.arr_time = d1.arr_time
                 /\ d2.weight = d1.weight /\ d2.currency = d1.currency
                 /\ "left" \notin DOMAIN d2


(***************************************************************************)
(* Round-trip pairing: Ryanair._compute_responses (ryanair/ryanair.py)     *)
(***************************************************************************)

MaxDay == 3
FaresLeftValues == {0, 1}
OutboundAmount == 10
ReturnAmount == 12

\* one entry of trips[j]['dates']: a day and its single flight, which
\* leaves at 08:00 and lands at 10:00
trip_date(day, left, amount) ==
    [dateOut |-> day,
     flights |-> << [time |-> <<day * HoursPerDay + 8, day * HoursPerDay + 10>>,
                     faresLeft |-> left,
                     amount |-> amount] >>]

\* the availability answer for the days first..last (bool(res) is res.ok)
Response(ok, first, last, left_out, left_in) ==
    [ok |-> ok,
     currency |-> "EUR",
     trips |-> << [origin |-> "A", destination |-> "B",
                   dates |-> [i \in 1..(last - first + 1) |->
                                 trip_date(first + i - 1, left_out[first + i - 1],
                                           OutboundAmount)]],
                  [origin |-> "B", destination |-> "A",
                   dates |-> [i \in 1..(last - first + 1) |->
                                 trip_date(first + i - 1, left_in[first + i - 1],
                                           ReturnAmount)]] >>]

\* lines 664-677: the first response gives trips, every later response
\* that is truthy extends the dates of both directions
RECURSIVE merge_responses(_, _, _)
merge_responses(responses, req_num, merged) ==
    IF req_num > Len(responses) THEN merged
    ELSE LET res == responses[req_num] IN
         IF res.ok /\ req_num = 1
         THEN merge_responses(responses, req_num + 1, res.trips)
         ELSE IF res.ok
         THEN merge_responses(responses, req_num + 1,
                  [j \in 1..2 |->
                      [merged[j] EXCEPT !.dates = @ \o res.trips[j].dates]])
         ELSE merge_responses(responses, req_num + 1, merged)

\* lines 697-720: one RoundTripFare per return flight with faresLeft != 0
RECURSIVE return_fares(_, _, _, _)
return_fares(merged, outbound_flight, flights, k) ==
    IF k > Len(flights) THEN <<>>
    ELSE LET return_flight == flights[k]
             rest == return_fares(merged, outbound_flight, flights, k + 1)
         IN IF return_flight.faresLeft # 0
            THEN << [outbound_dep_time |-> outbound_flight.time[1],
                     outbound_arr_time |-> outbound_flight.time[2],
                     return_dep_time |-> return_flight.time[1],
                     return_arr_time |-> return_flight.time[2],
                     origin |-> merged[1].origin,
                     destination |-> merged[1].destination,
                     outbound_fare |-> outbound_flight.amount,
                     outbound_left |-> outbound_flight.faresLeft,
                     return_fare |-> return_flight.amount,
                     return_left |-> return_flight.faresLeft,
                     currency |-> "EUR"] >> \o rest
            ELSE rest

\* lines 686-722: the loop over the return dates for one outbound flight;
\* the assignment to i at line 694 is overwritten by the for statement
RECURSIVE pair_returns(_, _, _, _, _, _)
pair_returns(merged, mn, mx, date_out, outbound_flight, i) ==
    IF i > Len(merged[2].dates) THEN <<>>
    ELSE LET trip_date_in == merged[2].dates[i]
             date_in == trip_date_in.dateOut
         IN IF date_in < date_out
            THEN pair_returns(merged, mn, mx, date_out, outbound_flight, i + 1)
            ELSE IF mn <= date_in - date_out /\ date_in - date_out <= mx
            THEN return_fares(merged, outbound_flight, trip_date_in.flights, 1)
                 \o pair_returns(merged, mn, mx, date_out, outbound_flight, i + 1)
            ELSE IF date_in # date_out
            THEN <<>>
            ELSE pair_returns(merged, mn, mx, date_out, outbound_flight, i + 1)

\* lines 683-685: the outbound flights of one date with faresLeft != 0
RECURSIVE pair_outbound_flights(_, _, _, _, _, _)
pair_outbound_flights(merged, mn, mx, date_out, flights, k) ==
    IF k > Len(flights) THEN <<>>
    ELSE (IF flights[k].faresLeft # 0
          THEN pair_returns(merged, mn, mx, date_out, flights[k], 1)
          ELSE <<>>)
         \o pair_outbound_flights(merged, mn, mx, date_out, flights, k + 1)

RECURSIVE pair_outbound_dates(_, _, _, _)
pair_outbound_dates(merged, mn, mx, d) ==
    IF d > Len(merged[1].dates) THEN <<>>
    ELSE pair_outbound_flights(merged, mn, mx, merged[1].dates[d].dateOut,
                               merged[1].dates[d].flights, 1)
         \o pair_outbound_dates(merged, mn, mx, d + 1)

_compute_responses(responses, mn, mx) ==
    pair_outbound_dates(merge_responses(responses, 1, <<>>), mn, mx, 1)

\* trips is unbound after the first loop when the first response is falsy
trips_unbound(responses) == responses = <<>> \/ ~responses[1].ok

\* the window from_date..to_date is asked in one request or in two
InitRT ==
    /\ origin = "A" /\ cutoff = 0
    /\ min_nights \in 0..MaxNights
    /\ max_nights \in min_nights..MaxNights
    /\ \E left_out \in [0..MaxDay -> FaresLeftValues],
          left_in \in [0..MaxDay -> FaresLeftValues],
          split \in 1..(MaxDay + 1), ok1 \in BOOLEAN, ok2 \in BOOLEAN :
          /\ (split = MaxDay + 1) => ok2
          /\ rt_trips =
                IF split = MaxDay + 1
                THEN << Response(ok1, 0, MaxDay, left_out, left_in) >>
                ELSE << Response(ok1, 0, split - 1, left_out, left_in),
                        Response(ok2, split, MaxDay, left_out, left_in) >>
    /\ rt_fares = <<>>
    /\ rtPc = "responses"
    /\ ClosedPathsOff /\ GraphWalkOff /\ PipelineOff
    /\ BacktrackingOff /\ PruneOff /\ RankOff /\ ArgsOff /\ AdjacencyBuildOff
    /\ CacheOff

rtRest == <<paramVars, cpVars, gwVars, ppVars, sbVars, fgVars, rkVars,
            argVars, adjVars, cacheVars>>

ComputeResponses ==
    /\ rtPc = "responses"
    /\ ~trips_unbound(rt_trips)
    /\ rt_fares' = _compute_responses(rt_trips, min_nights, max_nights)
    /\ rtPc' = "done"
    /\ UNCHANGED <<rtRest, rt_trips>>

\* NameError on trips (line 672 or 680)
ComputeResponsesRaises ==
    /\ rtPc = "responses"
    /\ trips_unbound(rt_trips)
    /\ rtPc' = "error"
    /\ UNCHANGED <<rtRest, rt_trips, rt_fares>>

NextRT == ComputeResponses \/ ComputeResponsesRaises

SpecRoundTrip == InitRT /\ [][NextRT]_vars

\* the flights of one direction of the merged availability, with their day
FlightsOfDirection(j) ==
    LET dates == merge_responses(rt_trips, 1, <<>>)[j].dates
    IN {<<dates[d].dateOut, dates[d].flights[k]>> :
            d \in 1..Len(dates), k \in {1}}

\* the (outbound, return) pairs with seats on both flights and a number
\* of nights in the window
PairsInWindow ==
    LET out == {x \in FlightsOfDirection(1) : x[2].faresLeft # 0}
        ret == {y \in FlightsOfDirection(2) : y[2].faresLeft # 0}
    IN {<<p[1][2].time[1], p[2][2].time[1]>> :
           p \in {q \in out \X ret :
                     /\ min_nights <= q[2][1] - q[1][1]
                     /\ q[2][1] - q[1][1] <= max_nights}}

PairsReturned ==
    {<<rt_fares[i].outbound_dep_time, rt_fares[i].return_dep_time>> :
        i \in 1..Len(rt_fares)}

\* C30: with the return dates in ascending consecutive order,
\* _compute_responses returns a RoundTripFare for every (outbound,
\* return) pair with seats left on both flights and min_nights <= nights
\* <= max_nights, for every 0 <= min_nights <= max_nights, and no pair
\* outside the window.
C30_PairingExact ==
    rtPc = "done" => PairsReturned = PairsInWindow

\* no pair outside the window is ever returned
C30_NoPairOutsideWindow ==
    rtPc = "done" => PairsReturned \subseteq PairsInWindow

\* the pairing is exact when a stay may be as short as one night
C30_PairingExactShortStay ==
    (rtPc = "done" /\ min_nights <= 1) => PairsReturned = PairsInWindow

\* fares with two first flights from the origin, a connection of exactly
\* two hours (B -> C at 4), one of one hour (B -> C at 3), a way back to
\* an airport already visited (C -> B) and stays of one and two days
WalkFares == {
    OneWayFare("A", "B", 0, 2, 10),
    OneWayFare("A", "C", 1, 3, 9),
    OneWayFare("B", "C", 3, 5, 20),
    OneWayFare("B", "C", 4, 6, 25),
    OneWayFare("C", "B", 8, 10, 14),
    OneWayFare("C", "D", 8, 10, 7),
    OneWayFare("C", "A", 31, 33, 30),
    OneWayFare("B", "A", 34, 36, 8),
    OneWayFare("D", "A", 60, 62, 6) }

InitWalk ==
    /\ origin = "A"
    /\ cutoff \in 0..MaxCutoff
    /\ min_nights \in 0..MaxNights
    /\ max_nights \in 0..MaxNights
    /\ \E S \in SUBSET WalkFares : fares_node_map = FaresNodeMapOf(S)
    /\ graph = EmptyGraph
    /\ valid_paths = <<>>
    /\ trips = <<>>
    /\ gwPc = "fares"
    /\ ClosedPathsOff
    /\ PipelineOff
    /\ ExtrasOff

SpecWalk == InitWalk /\ [][NextGW]_vars

\* the sequences of k edges of g that start at org and chain leg to leg
RECURSIVE ChainsFrom(_, _, _)
ChainsFrom(g, org, k) ==
    IF k = 1 THEN {<<e>> : e \in {x \in SeqToSet(g.edges) : x[1] = org}}
    ELSE {Append(q[1], q[2]) :
             q \in {r \in ChainsFrom(g, org, k - 1) \X SeqToSet(g.edges) :
                       r[2][1] = r[1][k - 1][2]}}

\* the connection rule between two consecutive legs
ConnectionRule(g, mn, mx, e1, e2) ==
    LET gap == get_edge_data(g, e2).dep_time - get_edge_data(g, e1).arr_time
    IN /\ gap > 0
       /\ IF mn = 0 THEN gap >= 2
          ELSE \E n \in mn..mx : n * HoursPerDay <= gap
                                  /\ gap < (n + 1) * HoursPerDay

\* an itinerary: ends at the origin, meets the origin nowhere in between,
\* visits no other airport twice, connects on every adjacent pair
IsItinerary(g, org, mn, mx, p) ==
    /\ p[Len(p)][2] = org
    /\ \A i \in 1..(Len(p) - 1) : p[i][2] # org
    /\ \A i, j \in 1..(Len(p) - 1) : i # j => p[i][2] # p[j][2]
    /\ \A i \in 1..(Len(p) - 1) : ConnectionRule(g, mn, mx, p[i], p[i + 1])

ClosedItineraries(g, org, mn, mx, cut) ==
    UNION {{p \in ChainsFrom(g, org, k) : IsItinerary(g, org, mn, mx, p)} :
              k \in 3..cut}

\* C24: get_valid_paths returns every sequence of FareGraph edges that
\* starts at origin, ends at origin, chains leg to leg, visits no
\* intermediate airport twice, has between 3 and cutoff legs and satisfies
\* the connection rule on every adjacent pair, and returns each of them
\* exactly once.
C24_CompleteAndDuplicateFree ==
    gwPc = "done" =>
        /\ SeqToSet(valid_paths) =
               ClosedItineraries(graph, origin, min_nights, max_nights, cutoff)
        /\ \A i, j \in 1..Len(valid_paths) :
               i # j => valid_paths[i] # valid_paths[j]

\* itineraries of two different first flights, one of them with cutoff
\* legs, in a graph that also has a way back to a visited airport
C24_Witness ==
    /\ gwPc = "done"
    /\ \E e \in SeqToSet(graph.edges) : e[1] = "C" /\ e[2] = "B"
    /\ \E i, j \in 1..Len(valid_paths) :
          /\ valid_paths[i][1] # valid_paths[j][1]
          /\ Len(valid_paths[i]) = cutoff
          /\ Len(valid_paths[j]) < cutoff

\* C29: when min_nights = 0 the result of the graph-walk does not depend
\* on max_nights: for the same FareGraph, origin and cutoff, every run
\* with min_nights = 0 returns the same itineraries whatever max_nights
\* is (only the 2-hour floor applies, no upper bound on the gap).
C29_MaxNightsIgnoredAtZero ==
    (gwPc = "done" /\ min_nights = 0) =>
        \A mx \in 0..MaxNights :
            SeqToSet(get_valid_paths(graph, origin, 0, mx, cutoff)) =
                SeqToSet(valid_paths)

\* a run with min_nights = 0 that returned an itinerary whose gap between
\* two legs is more than max_nights days
C29_Witness ==
    /\ gwPc = "done" /\ min_nights = 0
    /\ \E t \in 1..Len(trips) :
          \E i \in 1..(Len(trips[t].flights) - 1) :
              days(trips[t].flights[i + 1].dep_time
                   - trips[t].flights[i].arr_time) > max_nights

(***************************************************************************)
(* End-to-end scenario: three flights TRS -> B -> C -> TRS on three        *)
(* consecutive days (the origin TRS is the node "A" of the model)          *)
(***************************************************************************)

\* hours of the day at which a flight may leave, and the fares it may have
ScenarioHours == {0, 8, 23}
ScenarioPrices == {10, 25}

\* the flight of the given day, leaving at the given hour of that day and
\* landing two hours later
ScenarioFare(o, d, day, hour, price) ==
    OneWayFare(o, d, day * HoursPerDay + hour,
               day * HoursPerDay + hour + 2, price)

\* the fares map of the three airports of the scenario
ScenarioFaresNodeMap(S) ==
    [o \in {"A", "B", "C"} |-> [d \in {"A", "B", "C"} \ {o} |->
        FaresAsList({f \in S : f.origin = o /\ f.destination = d})]]

InitScenario ==
    /\ origin = "A"
    /\ cutoff \in 3..MaxCutoff
    /\ min_nights = 0
    /\ max_nights = 3
    /\ \E h \in [1..3 -> ScenarioHours], p \in [1..3 -> ScenarioPrices] :
          fares_node_map = ScenarioFaresNodeMap({
              ScenarioFare("A", "B", 0, h[1], p[1]),
              ScenarioFare("B", "C", 1, h[2], p[2]),
              ScenarioFare("C", "A", 2, h[3], p[3]) })
    /\ graph = EmptyGraph
    /\ valid_paths = <<>>
    /\ trips = <<>>
    /\ gwPc = "fares"
    /\ ClosedPathsOff
    /\ PipelineOff
    /\ ExtrasOff

\* the scenario always has a first flight from the origin
NextScenario == BuildGraph \/ FindMultiCityTrips

SpecScenario == InitScenario /\ [][NextScenario]_vars

\* the three flights of the scenario, in the order they are flown
ScenarioFlights ==
    <<fares_node_map["A"]["B"][1], fares_node_map["B"]["C"][1],
      fares_node_map["C"]["A"][1]>>

\* exactly one trip: the three legs, their fares added up, a stay at B
\* and then a stay at C
ScenarioOneTrip ==
    /\ Len(trips) = 1
    /\ Len(trips[1].flights) = 3
    /\ \A i \in 1..3 :
          /\ trips[1].flights[i].origin = ScenarioFlights[i].origin
          /\ trips[1].flights[i].destination = ScenarioFlights[i].destination
          /\ trips[1].flights[i].dep_time = ScenarioFlights[i].dep_time
    /\ trips[1].total_cost = ScenarioFlights[1].fare + ScenarioFlights[2].fare
                             + ScenarioFlights[3].fare
    /\ Len(trips[1].stays) = 2
    /\ trips[1].stays[1].location = "B"
    /\ trips[1].stays[2].location = "C"
    /\ \A i \in 1..2 :
          trips[1].stays[i].duration
              = ScenarioFlights[i + 1].dep_time - ScenarioFlights[i].arr_time

\* every flight leaves at least two hours after the previous one landed
ScenarioConnects ==
    \A i \in 1..2 :
        ScenarioFlights[i + 1].dep_time - ScenarioFlights[i].arr_time >= 2

\* C23 as stated: with origin TRS and exactly the flights TRS -> B on
\* day 0, B -> C on day 1 and C -> TRS on day 2, min_nights = 0,
\* max_nights = 3 and a cutoff of at least 3, find_multi_city_trips
\* returns exactly one trip with 3 legs, the sum of the three fares as
\* its cost and two stays, at B and at C in that order.
C23_ScenarioOneTrip ==
    gwPc = "done" => ScenarioOneTrip

\* C23 amended: the same when, in addition, each flight departs at least
\* 2 hours after the previous one arrives.
C23_ScenarioOneTripWhenConnecting ==
    (gwPc = "done" /\ ScenarioConnects) => ScenarioOneTrip

C23_Witness ==
    /\ gwPc = "done" /\ ScenarioConnects
    /\ max_nights = 3 /\ cutoff = 3
    /\ Len(trips) = 1

\* a flight landing after midnight less than two hours before the next
\* one leaves: no trip is returned
C23_NoTripWhenNotConnecting ==
    (gwPc = "done" /\ ~ScenarioConnects) => trips = <<>>

\* --- where an itinerary is: the batch of a worker that has not finished
LiveBatchIds(w) ==
    IF wpc[w] \in {"done", "dead"} THEN {} ELSE BatchIds(current_batch[w])
HoldersOf(id) == {w \in Workers : id \in LiveBatchIds(w)}

\* the number of the places that hold the itinerary
PlacesOf(id) ==
    (IF id \in QueueIds THEN 1 ELSE 0) + Cardinality(HoldersOf(id))
    + (IF id \in CommittedIds THEN 1 ELSE 0) + (IF id \in lost THEN 1 ELSE 0)

C26_AllAccountedAtReturn ==
    mainPc = "returned" =>
        /\ path_queue = <<>>
        /\ \A w \in Workers : LiveBatchIds(w) = {}
        /\ paths_found = paths_saved + Cardinality(lost)

\* the same restricted to runs in which every worker opened its connection
C26_AllAccountedWhenAllConnected ==
    (mainPc = "returned" /\ \A w \in Workers : wpc[w] = "done") =>
        /\ path_queue = <<>>
        /\ paths_found = paths_saved + Cardinality(lost)

\* the same restricted to runs without a stop signal and with a worker
\* that opened its connection
C26_AllAccountedWithoutSignal ==
    (mainPc = "returned" /\ ~stop_requested
     /\ \E w \in Workers : wpc[w] = "done") =>
        /\ path_queue = <<>>
        /\ paths_found = paths_saved + Cardinality(lost)

\* C27: process_paths terminates under fair scheduling: the callbacks
\* complete, every started worker exits and is joined, process_paths
\* returns; also when the queue reaches capacity and when one or all
\* workers fail to open their database connection.
C27_Terminates == <>(mainPc = "returned")

\* process_paths returns whenever some worker opened its connection
C27_TerminatesIfConnected ==
    <>(mainPc = "returned" \/ \A w \in Workers : wpc[w] = "dead")

\* C28: at most one database worker is inside save_paths_batch at any
\* time and it holds save_lock (full-batch flush, timeout flush and final
\* flush alike); paths_saved is only changed by the holder of the lock.
C28_InsideSaveHoldsLock ==
    /\ Cardinality({w \in Workers : wpc[w] = "saving"}) <= 1
    /\ \A w \in Workers : wpc[w] = "saving" <=> save_lock = w

C28_SavedUnderLock ==
    paths_saved' # paths_saved =>
        \E w \in Workers :
            /\ save_lock = w /\ wpc[w] = "saving"
            /\ save_lock' = 0
            /\ \A v \in Workers \ {w} : wpc'[v] = wpc[v]

C28_FlushesMutuallyExclusive ==
    []C28_InsideSaveHoldsLock /\ [][C28_SavedUnderLock]_vars

\* a worker in its final flush while another one waits for the lock
C28_Witness ==
    \E w, v \in Workers :
        /\ wpc[w] = "saving" /\ final_flush[w]
        /\ wpc[v] = "lock"
====
